---- MODULE Spec2Model ----
(***************************************************************************)
(* Model of the MATE invest applet: the panel ticker (invest-applet.c) and *)
(* the chart window (invest-applet-chart.c).  Both issue one asynchronous  *)
(* HTTP request per configured symbol and merge the completions into an    *)
(* index-addressed collection on the GLib main loop.                       *)
(***************************************************************************)
EXTENDS Integers, Sequences, FiniteSets, TLC

(***************************************************************************)
(* Bounds of the model.                                                    *)
(***************************************************************************)
MaxSymbols == 2      \* longest configured symbol list
MaxInFlight == 3       \* ticker requests in flight at once
MaxChartInFlight == 2  \* chart requests in flight at once
MaxSeries == 9         \* symbols of the generation the renderer is checked on
MaxButton == 1         \* the user clicks the preset buttons 0..MaxButton

(***************************************************************************)
(* Program constants.                                                      *)
(***************************************************************************)
DEFAULT_UPDATE_INTERVAL == 15
DEFAULT_CYCLE_INTERVAL == 5
SOUP_STATUS_OK == 200

\* Symbols are character sequences, so that the '=' suffix can be cut off.
Universe == << <<"A">>, <<"F", "X", "=", "X">>, <<"C">>, <<"D">> >>

\* The values the "stock-symbols" setting takes: the suffixes of the first
\* MaxSymbols symbols of Universe, the empty list included, so that a slot index
\* names a different symbol in each list.
SymbolLists == {SubSeq(Universe, i, MaxSymbols) : i \in 1..(MaxSymbols + 1)}

RefreshIntervals == {DEFAULT_UPDATE_INTERVAL, 30}
CycleIntervals == {DEFAULT_CYCLE_INTERVAL, 10}

Min(a, b) == IF a < b THEN a ELSE b
Max(a, b) == IF a > b THEN a ELSE b

(***************************************************************************)
(* JSON documents as json-glib presents them.  A node is a record with a   *)
(* type tag; NULLPTR is the C null pointer the accessors return when a     *)
(* member is absent or has the wrong type.                                 *)
(***************************************************************************)
NULLPTR == [type |-> "NULL"]
JNull == [type |-> "null"]
JInt(n) == [type |-> "int", val |-> n]
JDouble(n) == [type |-> "double", val |-> n]
JString(s) == [type |-> "string", str |-> s]
JArray(s) == [type |-> "array", elems |-> s]
JObject(f) == [type |-> "object", members |-> f]
\* A body json_parser_load_from_data rejects.
Garbage == [type |-> "garbage"]
EmptyObject == JObject(<<>>)

json_parser_load_from_data(body) == body.type # "garbage"

json_node_get_object(node) == IF node.type = "object" THEN node ELSE NULLPTR

json_object_has_member(obj, k) == obj.type = "object" /\ k \in DOMAIN obj.members

json_object_get_member(obj, k) ==
    IF json_object_has_member(obj, k) THEN obj.members[k] ELSE NULLPTR

json_object_get_null_member(obj, k) == json_object_get_member(obj, k).type = "null"

json_object_get_object_member(obj, k) ==
    LET node == json_object_get_member(obj, k)
    IN IF node.type = "object" THEN node ELSE NULLPTR

json_object_get_array_member(obj, k) ==
    LET node == json_object_get_member(obj, k)
    IN IF node.type = "array" THEN node ELSE NULLPTR

json_object_get_double_member(obj, k) ==
    LET node == json_object_get_member(obj, k)
    IN IF node.type \in {"int", "double"} THEN node.val ELSE 0

json_array_get_length(arr) == Len(arr.elems)

\* C indices are 0-based, sequences 1-based.
json_array_get_element(arr, i) == arr.elems[i + 1]

json_array_get_object_element(arr, i) ==
    LET node == json_array_get_element(arr, i)
    IN IF node.type = "object" THEN node ELSE NULLPTR

json_node_get_value_type(node) ==
    CASE node.type = "int" -> "G_TYPE_INT64"
      [] node.type = "double" -> "G_TYPE_DOUBLE"
      [] node.type = "string" -> "G_TYPE_STRING"
      [] OTHER -> "G_TYPE_INVALID"

\* A completed SoupMessage: status code and response body.
Message(status, body) == [status_code |-> status, body |-> body]

ChartDoc(result) == JObject("chart" :> JObject("result" :> result))

(***************************************************************************)
(* Responses of the summary endpoint used by the ticker.                   *)
(***************************************************************************)
QuotePrices == {-1, 0, 3, 5}
QuotePrevCloses == {-2, 0, 2, 4}

QuoteDoc(price, prev) ==
    ChartDoc(JArray(<< JObject("meta" :> JObject(
        "regularMarketPrice" :> JDouble(price) @@ "previousClose" :> JDouble(prev))) >>))

AllStockMessages ==
    {Message(500, Garbage), Message(SOUP_STATUS_OK, Garbage),
     Message(SOUP_STATUS_OK, EmptyObject),
     Message(SOUP_STATUS_OK, ChartDoc(JNull)),
     Message(SOUP_STATUS_OK, ChartDoc(JArray(<<>>))),
     Message(SOUP_STATUS_OK, ChartDoc(JArray(<< EmptyObject >>))),
     Message(SOUP_STATUS_OK, ChartDoc(JArray(<< JObject("meta" :> JObject(
        "regularMarketPrice" :> JInt(3))) >>))),
     Message(SOUP_STATUS_OK, ChartDoc(JArray(<< JObject("meta" :> JObject(
        "regularMarketPrice" :> JInt(3) @@ "previousClose" :> JInt(2))) >>)))}
    \cup {Message(SOUP_STATUS_OK, QuoteDoc(p, q)) : p \in QuotePrices, q \in QuotePrevCloses}

\* The messages delivered in the ticker's behaviours: a failed fetch, a quote
\* without a previous close, and a full quote.
StockMessages ==
    {Message(500, Garbage), Message(SOUP_STATUS_OK, QuoteDoc(3, 0)),
     Message(SOUP_STATUS_OK, QuoteDoc(3, 2))}

(***************************************************************************)
(* Texts.  A text is a record so that texts of every kind compare.         *)
(***************************************************************************)
Text(t) == [text |-> t, symbol |-> <<>>, price |-> 0, lines |-> <<>>]
NullText == Text("(null)")
\* "%s: $%.2f" of a symbol and a price
PriceText(sym, price) == [text |-> "%s: $%.2f", symbol |-> sym, price |-> price, lines |-> <<>>]
\* one line of the tooltip
ValidLine(sym, price, change) ==
    [text |-> "%s: $%.2f (%.2f%%)", symbol |-> sym, price |-> price, change |-> change]
NoDataLine(sym) == [text |-> "%s: No data", symbol |-> sym, price |-> 0, change |-> 0]
SummaryText(lines) ==
    [text |-> "Portfolio Summary:", symbol |-> <<>>, price |-> 0, lines |-> lines]

(***************************************************************************)
(* State.                                                                  *)
(***************************************************************************)
VARIABLES
    applet,               \* struct _InvestApplet, with the label, icon and tooltip shown
    settings_symbols,     \* the "stock-symbols" key of the applet's GSettings
    sources,              \* live timeout sources of the main loop: [id, func, interval]
    stock_requests,       \* slot indices of the current generation's requests in flight
    stale_stock_requests, \* per slot index, the requests of earlier generations in flight
    delivered,            \* per slot, the outcome delivered to the current generation
    signalled,            \* the pending == 0 branch ran after the last completion
    completed_valid,      \* the valid slot indices as the last pending == 0 branch found them
    heap_corrupt,         \* a completion wrote past the end of the slot arrays
    chart,                \* struct _InvestChart; window is TRUE while the window exists
    toolbar,              \* the preset buttons of the window: [range, interval, sensitive]
    chart_requests,       \* the current chart generation's requests in flight: [idx, range, interval]
    stale_chart_requests, \* per slot index, the chart requests of earlier generations in flight
    chart_delivered,      \* per slot, the messages delivered to the current chart generation
    redraw_queued,        \* gtk_widget_queue_draw was called and no draw has run since
    drawn                 \* what chart_draw_cb drew last

ticker_vars == <<applet, sources, stock_requests, stale_stock_requests,
                 delivered, signalled, completed_valid>>

chart_vars == <<chart, toolbar, chart_requests, stale_chart_requests, chart_delivered,
                redraw_queued, drawn>>

vars == <<applet, settings_symbols, sources, stock_requests, stale_stock_requests,
          delivered, signalled, completed_valid, heap_corrupt, chart, toolbar,
          chart_requests, stale_chart_requests, chart_delivered, redraw_queued, drawn>>

\* The state the handlers of invest-applet.c work on.
World ==
    [applet |-> applet, sources |-> sources, requests |-> stock_requests,
     stale |-> stale_stock_requests, delivered |-> delivered, signalled |-> signalled,
     completed_valid |-> completed_valid,
     heap_corrupt |-> heap_corrupt]

Commit(w) ==
    /\ applet' = w.applet
    /\ sources' = w.sources
    /\ stock_requests' = w.requests
    /\ stale_stock_requests' = w.stale
    /\ delivered' = w.delivered
    /\ signalled' = w.signalled
    /\ completed_valid' = w.completed_valid
    /\ heap_corrupt' = w.heap_corrupt
    /\ UNCHANGED chart_vars

SlotIndices == 0..(MaxSymbols - 1)

\* Number of requests in a per-index count of requests.
BagSize(b) ==
    LET RECURSIVE sum(_)
        sum(i) == IF i >= MaxSymbols THEN 0 ELSE b[i] + sum(i + 1)
    IN sum(0)

NoOutcome == [received |-> FALSE, valid |-> FALSE, price |-> 0, change |-> 0]


(***************************************************************************)
(* invest-applet.c: helpers.                                               *)
(***************************************************************************)
IsNull(p) == p.type = "NULL"

\* Offset of the first occurrence of c in s, or -1 for a NULL result.
strchr(s, c) ==
    IF \E i \in 1..Len(s) : s[i] = c
    THEN (CHOOSE i \in 1..Len(s) : s[i] = c /\ \A j \in 1..(i - 1) : s[j] # c) - 1
    ELSE -1

g_strndup(s, n) == SubSeq(s, 1, Min(n, Len(s)))

invest_applet_update_display(w) ==
    LET a == w.applet
        icon == IF a.stock_summary # NullText
                THEN (IF a.change_percent > 0 THEN "invest_up"
                      ELSE IF a.change_percent < 0 THEN "invest_down"
                      ELSE "invest_neutral")
                ELSE "invest_neutral"
    IN [w EXCEPT !.applet.label = IF a.stock_summary = NullText THEN Text("") ELSE a.stock_summary,
                 !.applet.direction_icon = icon]

update_applet_text(w, message, change_percent) ==
    invest_applet_update_display(
        [w EXCEPT !.applet.stock_summary = message,
                  !.applet.change_percent = change_percent])

\* A variant of lines 705-712 that forgets the id and leaves the source.
clear_timeout_KeepsSource(w, field) ==
    LET id == w.applet[field]
    IN IF id # 0
       THEN [w EXCEPT !.applet[field] = 0]
       ELSE w

\* field is "cycle_timeout_id" or "update_timeout_id"
clear_timeout(w, field) ==
    LET id == w.applet[field]
    IN IF id # 0
       THEN [w EXCEPT !.sources = {s \in @ : s.id # id},
                      !.applet[field] = 0]
       ELSE w

\* Source ids are names: the smallest id that no live source has and that no field
\* of the applet still holds stands for the fresh id GLib hands out.
FreshSourceId(w) ==
    LET used == {s.id : s \in w.sources}
                \cup {w.applet.update_timeout_id, w.applet.cycle_timeout_id}
    IN CHOOSE n \in 1..(Cardinality(used) + 1) :
           n \notin used /\ \A m \in 1..(n - 1) : m \in used

g_timeout_add_seconds(w, interval, func, field) ==
    LET id == FreshSourceId(w)
    IN [w EXCEPT !.sources = @ \cup {[id |-> id, func |-> func, interval |-> interval]},
                 !.applet[field] = id]

free_stock_data(w) ==
    [w EXCEPT !.applet.stock_symbols = <<>>,
              !.applet.stock_prices = <<>>,
              !.applet.stock_changes = <<>>,
              !.applet.stock_valid = <<>>,
              !.applet.stock_summary = NullText]

\* A variant of lines 668-681 that lists every slot.
get_valid_stock_indices_EverySlot(a) ==
    LET RECURSIVE collect(_)
        collect(i) ==
            IF i >= a.total_symbols THEN <<>>
            ELSE <<i>> \o collect(i + 1)
    IN collect(0)

\* The 0-based indices of the valid slots, in slot order.
get_valid_stock_indices(a) ==
    LET RECURSIVE collect(_)
        collect(i) ==
            IF i >= a.total_symbols THEN <<>>
            ELSE (IF a.stock_valid[i + 1] THEN <<i>> ELSE <<>>) \o collect(i + 1)
    IN collect(0)

display_stock_at_index(w, stock_index) ==
    LET a == w.applet
    IN IF stock_index < 0 \/ stock_index >= a.total_symbols \/ a.stock_symbols = <<>>
       THEN w
       ELSE LET sym == a.stock_symbols[stock_index + 1]
                eq == strchr(sym, "=")
                stock_symbol == IF eq >= 0 THEN g_strndup(sym, eq) ELSE sym
            IN update_applet_text(w, PriceText(stock_symbol, a.stock_prices[stock_index + 1]),
                                  a.stock_changes[stock_index + 1])

create_stock_tooltip(a) ==
    LET lines == [i \in 1..a.total_symbols |->
                    IF a.stock_valid[i]
                    THEN ValidLine(a.stock_symbols[i], a.stock_prices[i], a.stock_changes[i])
                    ELSE NoDataLine(a.stock_symbols[i])]
        valid_count == Cardinality({i \in 1..a.total_symbols : a.stock_valid[i]})
    IN IF valid_count = 0 THEN Text("No valid stock data") ELSE SummaryText(lines)

(***************************************************************************)
(* invest_applet_update_stocks: start a fetch generation for `symbols`,    *)
(* the value of the "stock-symbols" setting.                               *)
(***************************************************************************)
invest_applet_update_stocks(w, symbols) ==
    IF ~w.applet.settings THEN w
    ELSE IF symbols = <<>>
    THEN update_applet_text(w, Text("No stocks configured"), 0)
    ELSE
    LET symbol_count == Len(symbols)
        w1 == free_stock_data(w)
        w2 == [w1 EXCEPT !.applet.pending_requests = symbol_count,
                         !.applet.total_symbols = symbol_count,
                         !.applet.stock_symbols = symbols,
                         !.applet.stock_prices = [i \in 1..symbol_count |-> 0],
                         !.applet.stock_changes = [i \in 1..symbol_count |-> 0],
                         !.applet.stock_valid = [i \in 1..symbol_count |-> FALSE],
                         !.applet.cycle_position = 0]
        w3 == clear_timeout(w2, "cycle_timeout_id")
    \* the requests still in flight now belong to a superseded generation
    IN [w3 EXCEPT !.requests = 0..(symbol_count - 1),
                  !.stale = [i \in SlotIndices |->
                                @[i] + (IF i \in w.requests THEN 1 ELSE 0)],
                  !.delivered = [i \in 1..symbol_count |-> NoOutcome],
                  !.signalled = FALSE]

(***************************************************************************)
(* on_stock_data_received.                                                 *)
(***************************************************************************)
\* A variant of line 164 that accepts a price of zero.
StockQuote_AcceptsZeroPrice(msg) ==
    LET root_obj == json_node_get_object(msg.body)
        chart_obj == json_object_get_object_member(root_obj, "chart")
        results == json_object_get_array_member(chart_obj, "result")
        result == json_array_get_object_element(results, 0)
        meta == json_object_get_object_member(result, "meta")
        current_price == json_object_get_double_member(meta, "regularMarketPrice")
        prev_close == json_object_get_double_member(meta, "previousClose")
    IN IF /\ msg.status_code = SOUP_STATUS_OK
          /\ json_parser_load_from_data(msg.body)
          /\ json_object_has_member(root_obj, "chart")
          /\ json_object_has_member(chart_obj, "result")
          /\ ~json_object_get_null_member(chart_obj, "result")
          /\ ~IsNull(results)
          /\ json_array_get_length(results) > 0
          /\ ~IsNull(result)
          /\ ~IsNull(meta)
          /\ current_price >= 0
          /\ prev_close > 0
       THEN [received |-> TRUE, valid |-> TRUE, price |-> current_price,
             change |-> ((current_price - prev_close) * 100) \div prev_close]
       ELSE [received |-> TRUE, valid |-> FALSE, price |-> 0, change |-> 0]

\* Lines 116-179: what the handler extracts from the message.
StockQuote(msg) ==
    LET root_obj == json_node_get_object(msg.body)
        chart_obj == json_object_get_object_member(root_obj, "chart")
        results == json_object_get_array_member(chart_obj, "result")
        result == json_array_get_object_element(results, 0)
        meta == json_object_get_object_member(result, "meta")
        current_price == json_object_get_double_member(meta, "regularMarketPrice")
        prev_close == json_object_get_double_member(meta, "previousClose")
    IN IF /\ msg.status_code = SOUP_STATUS_OK
          /\ json_parser_load_from_data(msg.body)
          /\ json_object_has_member(root_obj, "chart")
          /\ json_object_has_member(chart_obj, "result")
          /\ ~json_object_get_null_member(chart_obj, "result")
          /\ ~IsNull(results)
          /\ json_array_get_length(results) > 0
          /\ ~IsNull(result)
          /\ ~IsNull(meta)
          /\ current_price > 0
          /\ prev_close > 0
       THEN [received |-> TRUE, valid |-> TRUE, price |-> current_price,
             change |-> ((current_price - prev_close) * 100) \div prev_close]
       ELSE [received |-> TRUE, valid |-> FALSE, price |-> 0, change |-> 0]

\* A variant of lines 187-213 that displays the last valid symbol.
GenerationComplete_ShowsLastValid(w) ==
    LET done == [w EXCEPT !.signalled = (w.requests = {}),
                          !.completed_valid = get_valid_stock_indices(w.applet)]
    IN IF done.applet.total_symbols > 0
       THEN LET w1 == clear_timeout(done, "cycle_timeout_id")
                w2 == [w1 EXCEPT !.applet.cycle_position = 0]
                valid_indices == get_valid_stock_indices(w2.applet)
                valid_count == Len(valid_indices)
            IN IF valid_count > 0
               THEN LET w3 == display_stock_at_index(w2, valid_indices[valid_count])
                        w4 == IF w3.applet.cycle_timeout_id = 0 /\ valid_count > 1
                              THEN g_timeout_add_seconds(w3, w3.applet.cycle_interval,
                                       "invest_applet_cycle_stocks", "cycle_timeout_id")
                              ELSE w3
                    IN [w4 EXCEPT !.applet.tooltip = create_stock_tooltip(w4.applet)]
               ELSE update_applet_text(w2, Text("No valid stock data"), 0)
       ELSE update_applet_text(done, Text("No valid stock data"), 0)

\* Lines 187-213: the pending_requests == 0 branch.
GenerationComplete(w) ==
    LET done == [w EXCEPT !.signalled = (w.requests = {}),
                          !.completed_valid = get_valid_stock_indices(w.applet)]
    IN IF done.applet.total_symbols > 0
       THEN LET w1 == clear_timeout(done, "cycle_timeout_id")
                w2 == [w1 EXCEPT !.applet.cycle_position = 0]
                valid_indices == get_valid_stock_indices(w2.applet)
                valid_count == Len(valid_indices)
            IN IF valid_count > 0
               THEN LET w3 == display_stock_at_index(w2, valid_indices[1])
                        w4 == IF w3.applet.cycle_timeout_id = 0 /\ valid_count > 1
                              THEN g_timeout_add_seconds(w3, w3.applet.cycle_interval,
                                       "invest_applet_cycle_stocks", "cycle_timeout_id")
                              ELSE w3
                    IN [w4 EXCEPT !.applet.tooltip = create_stock_tooltip(w4.applet)]
               ELSE update_applet_text(w2, Text("No valid stock data"), 0)
       ELSE update_applet_text(done, Text("No valid stock data"), 0)

on_stock_data_received(w, req, msg) ==
    LET quote == StockQuote(msg)
        symbol_index == req.idx
        w1 == IF quote.valid
              THEN (IF symbol_index < Len(w.applet.stock_prices)
                    THEN [w EXCEPT !.applet.stock_prices[symbol_index + 1] = quote.price,
                                   !.applet.stock_changes[symbol_index + 1] = quote.change,
                                   !.applet.stock_valid[symbol_index + 1] = TRUE]
                    ELSE [w EXCEPT !.heap_corrupt = TRUE])
              ELSE w
        w2 == IF req.stale
              THEN [w1 EXCEPT !.applet.pending_requests = @ - 1,
                              !.stale[symbol_index] = @ - 1]
              ELSE [w1 EXCEPT !.applet.pending_requests = @ - 1,
                              !.requests = @ \ {symbol_index},
                              !.delivered[symbol_index + 1] = quote]
    IN IF w2.applet.pending_requests = 0 THEN GenerationComplete(w2) ELSE w2

(***************************************************************************)
(* invest_applet_cycle_stocks: the world after the call and its result.    *)
(***************************************************************************)
\* A variant of lines 471-474 that displays the symbol at the position the
\* cycle is leaving.
invest_applet_cycle_stocks_ShowsOldPosition(w) ==
    LET a == w.applet
        valid_indices == get_valid_stock_indices(a)
        valid_count == Len(valid_indices)
    IN IF a.total_symbols = 0
       THEN [world |-> w, result |-> "G_SOURCE_CONTINUE"]
       ELSE IF valid_count = 0
       THEN [world |-> update_applet_text(w, Text("No valid stock data"), 0),
             result |-> "G_SOURCE_CONTINUE"]
       ELSE IF valid_count = 1
       THEN [world |-> w, result |-> "G_SOURCE_REMOVE"]
       ELSE LET pos == (a.cycle_position + 1) % valid_count
                w1 == [w EXCEPT !.applet.cycle_position = pos]
            IN [world |-> display_stock_at_index(w1, valid_indices[a.cycle_position + 1]),
                result |-> "G_SOURCE_CONTINUE"]

invest_applet_cycle_stocks(w) ==
    LET a == w.applet
        valid_indices == get_valid_stock_indices(a)
        valid_count == Len(valid_indices)
    IN IF a.total_symbols = 0
       THEN [world |-> w, result |-> "G_SOURCE_CONTINUE"]
       ELSE IF valid_count = 0
       THEN [world |-> update_applet_text(w, Text("No valid stock data"), 0),
             result |-> "G_SOURCE_CONTINUE"]
       ELSE IF valid_count = 1
       THEN [world |-> w, result |-> "G_SOURCE_REMOVE"]
       ELSE LET pos == (a.cycle_position + 1) % valid_count
                w1 == [w EXCEPT !.applet.cycle_position = pos]
            IN [world |-> display_stock_at_index(w1, valid_indices[pos + 1]),
                result |-> "G_SOURCE_CONTINUE"]


(***************************************************************************)
(* invest-applet-chart.c.                                                  *)
(***************************************************************************)
\* The table of create_chart_toolbar.
ranges ==
    << [text |-> "Today", range |-> "1d", interval |-> "1m"],
       [text |-> "Week", range |-> "5d", interval |-> "5m"],
       [text |-> "Month", range |-> "1mo", interval |-> "30m"],
       [text |-> "YTD", range |-> "ytd", interval |-> "1d"],
       [text |-> "Year", range |-> "1y", interval |-> "1d"],
       [text |-> "5Y", range |-> "5y", interval |-> "1wk"],
       [text |-> "All", range |-> "max", interval |-> "1mo"] >>

\* The buttons the user clicks in the model: the first MaxButton + 1 of the table.
ClickedButtons == 1..Min(MaxButton + 1, Len(ranges))

\* A slot of chart_data as g_malloc0 and the initialisation loop leave it.
\* A NULL array and an array of no elements are both <<>>.
EmptySlot(sym) ==
    [symbol |-> sym, prices |-> <<>>, timestamps |-> <<>>, data_count |-> 0, valid |-> FALSE]

\* Responses of the chart endpoint.
ResultDoc(result) == ChartDoc(JArray(<< result >>))
Quote(close) == JObject("quote" :> JArray(<< JObject("close" :> close) >>))
SeriesDoc(timestamp, close) ==
    ResultDoc(JObject("timestamp" :> timestamp @@ "indicators" :> Quote(close)))
TimestampDoc(timestamp) == ResultDoc(JObject("timestamp" :> timestamp))

\* The messages delivered in the chart's behaviours: a failed fetch, a series of
\* two points, a series whose closes are all null, and timestamps without closes.
ChartMessages ==
    {Message(500, Garbage),
     Message(SOUP_STATUS_OK, SeriesDoc(JArray(<<JInt(1000), JInt(1010)>>),
                                       JArray(<<JDouble(10), JDouble(11)>>))),
     Message(SOUP_STATUS_OK, SeriesDoc(JArray(<<JInt(1000), JInt(1010)>>),
                                       JArray(<<JNull, JNull>>))),
     Message(SOUP_STATUS_OK, TimestampDoc(JArray(<<JInt(1000), JInt(1010)>>)))}

\* An empty body: the parser accepts it and has no root node.
EmptyBody == [type |-> "empty"]
IndicatorsDoc(indicators) == ResultDoc(JObject("indicators" :> indicators))
TwoTimestamps == JArray(<<JInt(1000), JInt(1010)>>)

\* The shapes of response the extraction tells apart: failures of the fetch and
\* of the parser, documents without a result, and results whose timestamp and
\* close arrays are absent, null, empty, of unequal length or of mixed types,
\* and series with gaps, of a single point and of equal prices.
AllChartMessages ==
    {Message(500, Garbage),
     Message(404, SeriesDoc(TwoTimestamps, JArray(<<JDouble(10), JDouble(11)>>))),
     Message(SOUP_STATUS_OK, Garbage),
     Message(SOUP_STATUS_OK, EmptyBody),
     Message(SOUP_STATUS_OK, EmptyObject),
     Message(SOUP_STATUS_OK, JObject("chart" :> EmptyObject)),
     Message(SOUP_STATUS_OK, ChartDoc(JNull)),
     Message(SOUP_STATUS_OK, ChartDoc(JArray(<<>>))),
     Message(SOUP_STATUS_OK, ResultDoc(JNull)),
     Message(SOUP_STATUS_OK, SeriesDoc(JArray(<<JInt(1000), JInt(1010), JInt(1020)>>),
                                       JArray(<<JDouble(10), JDouble(11), JDouble(12)>>))),
     Message(SOUP_STATUS_OK, SeriesDoc(JArray(<<JInt(1000), JNull, JDouble(1020)>>),
                                       JArray(<<JDouble(10), JNull, JInt(12)>>))),
     Message(SOUP_STATUS_OK, SeriesDoc(JArray(<<JInt(1000), JInt(1010), JInt(1020)>>),
                                       JArray(<<JDouble(10), JNull, JDouble(12)>>))),
     Message(SOUP_STATUS_OK, SeriesDoc(JArray(<<JInt(1000), JInt(1010), JInt(1020)>>),
                                       JArray(<<JNull, JDouble(11), JDouble(12)>>))),
     Message(SOUP_STATUS_OK, SeriesDoc(JArray(<<JInt(1000)>>), JArray(<<JDouble(10)>>))),
     Message(SOUP_STATUS_OK, SeriesDoc(TwoTimestamps, JArray(<<JDouble(10), JDouble(10)>>))),
     Message(SOUP_STATUS_OK, SeriesDoc(TwoTimestamps, JArray(<<JDouble(10)>>))),
     Message(SOUP_STATUS_OK, SeriesDoc(TwoTimestamps, JArray(<<>>))),
     Message(SOUP_STATUS_OK, SeriesDoc(TwoTimestamps, JNull)),
     Message(SOUP_STATUS_OK, SeriesDoc(JNull, JArray(<<JDouble(10), JDouble(11)>>))),
     Message(SOUP_STATUS_OK, TimestampDoc(TwoTimestamps)),
     Message(SOUP_STATUS_OK, IndicatorsDoc(Quote(JArray(<<JDouble(10), JDouble(11)>>)))),
     Message(SOUP_STATUS_OK, IndicatorsDoc(JObject("quote" :> JArray(<<>>))))}

\* A variant of lines 251-294 without the status check of line 251.
ChartResult_IgnoresStatus(msg) ==
    LET root_obj == json_node_get_object(msg.body)
        chart_obj == json_object_get_object_member(root_obj, "chart")
        results == json_object_get_array_member(chart_obj, "result")
    IN IF /\ json_parser_load_from_data(msg.body)
          /\ json_object_has_member(root_obj, "chart")
          /\ json_object_has_member(chart_obj, "result")
          /\ ~json_object_get_null_member(chart_obj, "result")
          /\ ~IsNull(results)
          /\ json_array_get_length(results) > 0
       THEN json_array_get_object_element(results, 0)
       ELSE NULLPTR

\* Lines 251-294: result[0] of the message, or NULL.
ChartResult(msg) ==
    LET root_obj == json_node_get_object(msg.body)
        chart_obj == json_object_get_object_member(root_obj, "chart")
        results == json_object_get_array_member(chart_obj, "result")
    IN IF /\ msg.status_code = SOUP_STATUS_OK
          /\ json_parser_load_from_data(msg.body)
          /\ json_object_has_member(root_obj, "chart")
          /\ json_object_has_member(chart_obj, "result")
          /\ ~json_object_get_null_member(chart_obj, "result")
          /\ ~IsNull(results)
          /\ json_array_get_length(results) > 0
       THEN json_array_get_object_element(results, 0)
       ELSE NULLPTR

\* Lines 296-299: the timestamp array of result[0], or NULL.
TimestampArray(result) ==
    IF ~IsNull(result) /\ json_object_has_member(result, "timestamp")
    THEN json_object_get_array_member(result, "timestamp")
    ELSE NULLPTR

\* Lines 315-324: the close array of result[0].indicators.quote[0], or NULL.
CloseArray(result) ==
    LET indicators == json_object_get_object_member(result, "indicators")
        quotes == json_object_get_array_member(indicators, "quote")
        quote == json_array_get_object_element(quotes, 0)
    IN IF /\ ~IsNull(result)
          /\ json_object_has_member(result, "indicators")
          /\ json_object_has_member(indicators, "quote")
          /\ ~IsNull(quotes)
          /\ json_array_get_length(quotes) > 0
          /\ ~IsNull(quote)
          /\ json_object_has_member(quote, "close")
       THEN json_object_get_array_member(quote, "close")
       ELSE NULLPTR

\* A variant of lines 301-310 that packs the integer elements together, so a
\* skipped element shortens the copy.
CopyTimestamps_Compacting(arr) ==
    LET kept == SelectSeq(arr.elems, LAMBDA n : n.type = "int")
    IN [i \in 1..Len(kept) |-> kept[i].val]

\* Lines 301-310: g_malloc0, then the elements of type G_TYPE_INT64.
CopyTimestamps(arr) ==
    [i \in 1..json_array_get_length(arr) |->
        LET timestamp_node == json_array_get_element(arr, i - 1)
        IN IF json_node_get_value_type(timestamp_node) = "G_TYPE_INT64"
           THEN timestamp_node.val ELSE 0]

\* A variant of lines 325-335 that packs the double elements together.
CopyPrices_Compacting(arr) ==
    LET kept == SelectSeq(arr.elems, LAMBDA n : n.type = "double")
    IN [i \in 1..Len(kept) |-> kept[i].val]

\* Lines 325-335: g_malloc0, then the elements of type G_TYPE_DOUBLE.
CopyPrices(arr) ==
    [i \in 1..json_array_get_length(arr) |->
        LET price_node == json_array_get_element(arr, i - 1)
        IN IF json_node_get_value_type(price_node) = "G_TYPE_DOUBLE"
           THEN price_node.val ELSE 0]

\* A variant of lines 325-337 that marks the slot valid only when some copied
\* price is positive, and so leaves copied prices in a slot that stays invalid.
ParseIntoSlot_ValidIfPositive(slot, msg) ==
    LET result == ChartResult(msg)
        timestamps == TimestampArray(result)
        close_prices == CloseArray(result)
        s1 == IF ~IsNull(timestamps)
              THEN [slot EXCEPT !.timestamps = CopyTimestamps(timestamps),
                                !.data_count = json_array_get_length(timestamps)]
              ELSE slot
        copied == CopyPrices(close_prices)
    IN IF ~IsNull(close_prices)
       THEN [s1 EXCEPT !.prices = copied,
                       !.valid = slot.valid \/ \E i \in 1..Len(copied) : copied[i] > 0]
       ELSE s1

\* A variant of lines 325-337 that marks the slot valid only when the close
\* array has elements.
ParseIntoSlot_ValidIfNonEmpty(slot, msg) ==
    LET result == ChartResult(msg)
        timestamps == TimestampArray(result)
        close_prices == CloseArray(result)
        s1 == IF ~IsNull(timestamps)
              THEN [slot EXCEPT !.timestamps = CopyTimestamps(timestamps),
                                !.data_count = json_array_get_length(timestamps)]
              ELSE slot
    IN IF ~IsNull(close_prices)
       THEN [s1 EXCEPT !.prices = CopyPrices(close_prices),
                       !.valid = slot.valid \/ json_array_get_length(close_prices) > 0]
       ELSE s1

\* Lines 296-342: what the handler makes of a slot.
ParseIntoSlot(slot, msg) ==
    LET result == ChartResult(msg)
        timestamps == TimestampArray(result)
        close_prices == CloseArray(result)
        s1 == IF ~IsNull(timestamps)
              THEN [slot EXCEPT !.timestamps = CopyTimestamps(timestamps),
                                !.data_count = json_array_get_length(timestamps)]
              ELSE slot
    IN IF ~IsNull(close_prices)
       THEN [s1 EXCEPT !.prices = CopyPrices(close_prices), !.valid = TRUE]
       ELSE s1

\* The handler stores into the slot at all.
WritesSlot(msg) ==
    LET result == ChartResult(msg)
    IN ~IsNull(TimestampArray(result)) \/ ~IsNull(CloseArray(result))

\* The state the handlers of invest-applet-chart.c work on.
ChartWorld ==
    [chart |-> chart, toolbar |-> toolbar, requests |-> chart_requests,
     stale |-> stale_chart_requests, delivered |-> chart_delivered,
     redraw_queued |-> redraw_queued, heap_corrupt |-> heap_corrupt]

ChartCommit(w) ==
    /\ chart' = w.chart
    /\ toolbar' = w.toolbar
    /\ chart_requests' = w.requests
    /\ stale_chart_requests' = w.stale
    /\ chart_delivered' = w.delivered
    /\ redraw_queued' = w.redraw_queued
    /\ heap_corrupt' = w.heap_corrupt
    /\ UNCHANGED ticker_vars

\* A variant of lines 353-356 that queues no redraw.
QueueDrawIfVisible_Never(w) == w

\* gtk_widget_queue_draw, if the window is still there.
QueueDrawIfVisible(w) ==
    IF w.chart.window THEN [w EXCEPT !.redraw_queued = TRUE] ELSE w

\* No message has been delivered yet: status 0 is that of a message not sent.
NoDelivery ==
    [received |-> FALSE, slot |-> EmptySlot(<<>>), msg |-> Message(0, Garbage)]

fetch_chart_data(w, settings, symbols) ==
    IF ~settings THEN w
    ELSE IF symbols = <<>> THEN w
    ELSE
    LET symbol_count == Len(symbols)
        \* free_chart_data, g_malloc0 and the initialisation loop
        w1 == [w EXCEPT !.chart.chart_data = [i \in 1..symbol_count |-> EmptySlot(symbols[i])],
                        !.chart.chart_data_count = symbol_count]
        w2 == QueueDrawIfVisible(w1)
    IN [w2 EXCEPT !.requests = {[idx |-> i, range |-> w.chart.chart_range,
                                 interval |-> w.chart.chart_interval] :
                                    i \in 0..(symbol_count - 1)},
                  !.stale = [i \in SlotIndices |->
                                @[i] + (IF \E r \in w.requests : r.idx = i THEN 1 ELSE 0)],
                  !.delivered = [i \in 1..symbol_count |-> NoDelivery]]

\* A variant that sets valid for every body the parser accepted, as if line 337
\* stood after the nested tests.
on_chart_data_received_ValidOutside(w, req, msg) ==
    LET symbol_index == req.idx
        parsed == msg.status_code = SOUP_STATUS_OK /\ json_parser_load_from_data(msg.body)
        w1 == IF WritesSlot(msg) \/ parsed
              THEN (IF symbol_index < w.chart.chart_data_count
                    THEN [w EXCEPT !.chart.chart_data[symbol_index + 1] =
                                        [ParseIntoSlot(@, msg) EXCEPT !.valid = @ \/ parsed]]
                    ELSE [w EXCEPT !.heap_corrupt = TRUE])
              ELSE w
        w2 == QueueDrawIfVisible(w1)
    IN IF req.stale
       THEN [w2 EXCEPT !.stale[symbol_index] = @ - 1]
       ELSE [w2 EXCEPT !.requests = {r \in @ : r.idx # symbol_index},
                       !.delivered[symbol_index + 1] =
                            [received |-> TRUE,
                             slot |-> ParseIntoSlot(
                                 EmptySlot(w.chart.chart_data[symbol_index + 1].symbol), msg),
                             msg |-> msg]]

\* A variant of lines 296-342 that stores every response into slot 0.
on_chart_data_received_WritesFirstSlot(w, req, msg) ==
    LET symbol_index == req.idx
        w1 == IF WritesSlot(msg)
              THEN (IF symbol_index < w.chart.chart_data_count
                    THEN [w EXCEPT !.chart.chart_data[1] = ParseIntoSlot(@, msg)]
                    ELSE [w EXCEPT !.heap_corrupt = TRUE])
              ELSE w
        w2 == QueueDrawIfVisible(w1)
    IN IF req.stale
       THEN [w2 EXCEPT !.stale[symbol_index] = @ - 1]
       ELSE [w2 EXCEPT !.requests = {r \in @ : r.idx # symbol_index},
                       !.delivered[symbol_index + 1] =
                            [received |-> TRUE,
                             slot |-> ParseIntoSlot(
                                 EmptySlot(w.chart.chart_data[symbol_index + 1].symbol), msg),
                             msg |-> msg]]

on_chart_data_received(w, req, msg) ==
    LET symbol_index == req.idx
        w1 == IF WritesSlot(msg)
              THEN (IF symbol_index < w.chart.chart_data_count
                    THEN [w EXCEPT !.chart.chart_data[symbol_index + 1] =
                                        ParseIntoSlot(@, msg)]
                    ELSE [w EXCEPT !.heap_corrupt = TRUE])
              ELSE w
        w2 == QueueDrawIfVisible(w1)
    IN IF req.stale
       THEN [w2 EXCEPT !.stale[symbol_index] = @ - 1]
       ELSE [w2 EXCEPT !.requests = {r \in @ : r.idx # symbol_index},
                       !.delivered[symbol_index + 1] =
                            [received |-> TRUE,
                             slot |-> ParseIntoSlot(
                                 EmptySlot(w.chart.chart_data[symbol_index + 1].symbol), msg),
                             msg |-> msg]]

create_chart_toolbar(w) ==
    [w EXCEPT !.toolbar = [i \in 1..Len(ranges) |->
                              [range |-> ranges[i].range, interval |-> ranges[i].interval,
                               sensitive |-> w.chart.chart_range # ranges[i].range]]]

invest_chart_show(w, settings, symbols) ==
    IF w.chart.window THEN w
    ELSE fetch_chart_data(
             create_chart_toolbar([w EXCEPT !.chart.window = TRUE]), settings, symbols)

\* The window is gone, and with it its toolbar and its pending redraw.
on_chart_window_destroy(w) ==
    [w EXCEPT !.chart.window = FALSE, !.toolbar = <<>>, !.redraw_queued = FALSE]

\* gtk_widget_destroy emits "destroy" before it returns.
invest_chart_hide(w) ==
    IF ~w.chart.window THEN w
    ELSE on_chart_window_destroy(w)

invest_chart_refresh_data(w, settings, symbols) ==
    IF w.chart.window THEN fetch_chart_data(w, settings, symbols) ELSE w

\* A variant of lines 665-668 that takes over the range and keeps the interval.
chart_range_button_clicked_KeepsInterval(w, button, settings, symbols) ==
    LET w1 == [w EXCEPT !.chart.chart_range = w.toolbar[button].range,
                        !.toolbar = [i \in DOMAIN @ |->
                                        [@[i] EXCEPT !.sensitive = (i # button)]]]
    IN fetch_chart_data(w1, settings, symbols)

\* A variant without the loop of lines 671-682 that makes every button sensitive.
chart_range_button_clicked_NoReenable(w, button, settings, symbols) ==
    LET w1 == [w EXCEPT !.chart.chart_range = w.toolbar[button].range,
                        !.chart.chart_interval = w.toolbar[button].interval,
                        !.toolbar[button].sensitive = FALSE]
    IN fetch_chart_data(w1, settings, symbols)

\* button is the position of the clicked button in the toolbar.
chart_range_button_clicked(w, button, settings, symbols) ==
    LET w1 == [w EXCEPT !.chart.chart_range = w.toolbar[button].range,
                        !.chart.chart_interval = w.toolbar[button].interval,
                        !.toolbar = [i \in DOMAIN @ |->
                                        [@[i] EXCEPT !.sensitive = (i # button)]]]
    IN fetch_chart_data(w1, settings, symbols)

(***************************************************************************)
(* chart_draw_cb, lines 377-419: which of the two messages, or the chart,  *)
(* is drawn.  A read of prices[j] past the end of the array yields         *)
(* `garbage`; a read through a NULL prices pointer ends the process.       *)
(***************************************************************************)
Qualifies(slot) == slot.valid /\ slot.data_count > 0

HasValidData(c) ==
    \E i \in 1..c.chart_data_count : Qualifies(c.chart_data[i])

PriceAt(slot, j, garbage) ==
    IF j < Len(slot.prices) THEN slot.prices[j + 1] ELSE garbage

\* Lines 495-504: the palette.
colors ==
    << "#CC0000", "#3465A4", "#73D216", "#FCE94F", "#AD7FA8", "#F57900", "#C17D11",
       "#555753" >>

\* Lines 514-523: the qualifying slots in index order, each with its last price.
CollectSortInfo(c, garbage) ==
    LET valid_slots == SelectSeq([i \in 1..c.chart_data_count |-> i],
                                 LAMBDA i : Qualifies(c.chart_data[i]))
    IN [k \in 1..Len(valid_slots) |->
           [index |-> valid_slots[k] - 1,
            current_price |-> PriceAt(c.chart_data[valid_slots[k]],
                                      c.chart_data[valid_slots[k]].data_count - 1,
                                      garbage)]]

\* Lines 527-533: the inner loop of the exchange sort; i and j count from 1.
RECURSIVE SortInner(_, _, _)
SortInner(sort_info, i, j) ==
    IF j > Len(sort_info) THEN sort_info
    ELSE SortInner(IF sort_info[i].current_price < sort_info[j].current_price
                   THEN [sort_info EXCEPT ![i] = sort_info[j], ![j] = sort_info[i]]
                   ELSE sort_info,
                   i, j + 1)

\* Lines 526-534: the outer loop.
RECURSIVE SortOuter(_, _)
SortOuter(sort_info, i) ==
    IF i >= Len(sort_info) THEN sort_info
    ELSE SortOuter(SortInner(sort_info, i, i + 1), i + 1)

\* A variant of line 541 that takes the colour by the slot's index.
DrawSeries_ColorBySlot(sort_info) ==
    [k \in 1..Len(sort_info) |->
        [stock_index |-> sort_info[k].index,
         current_price |-> sort_info[k].current_price,
         color |-> colors[(sort_info[k].index % Len(colors)) + 1],
         legend_y |-> 30 + (k - 1) * 20]]

\* Lines 537-573: the line and the legend entry of each series, in sorted order;
\* k - 1 is the loop counter i.
DrawSeries(sort_info) ==
    [k \in 1..Len(sort_info) |->
        [stock_index |-> sort_info[k].index,
         current_price |-> sort_info[k].current_price,
         color |-> colors[((k - 1) % Len(colors)) + 1],
         legend_y |-> 30 + (k - 1) * 20]]

\* The sizes of the drawing area the chart is drawn at: that of a window of
\* the default size (line 115) and a smaller one.
Allocations == {[width |-> 800, height |-> 500], [width |-> 400, height |-> 300]}

\* A gdouble: the quotient num / den of two integers with den > 0, an
\* infinity, or NaN.
Finite(n, d) == [kind |-> "finite", num |-> n, den |-> d]
NaN == [kind |-> "nan", num |-> 0, den |-> 0]
Infinity == [kind |-> "inf", num |-> 0, den |-> 0]

\* n / d in IEEE arithmetic, d >= 0: a zero divisor traps nothing.
Divide(n, d) == IF d # 0 THEN Finite(n, d) ELSE IF n = 0 THEN NaN ELSE Infinity

\* n * q for an integer n: zero times an infinity is NaN.
Times(n, q) ==
    IF q.kind = "finite" THEN Finite(n * q.num, q.den)
    ELSE IF q.kind = "inf" /\ n # 0 THEN Infinity
    ELSE NaN

\* n + q for an integer n.
Plus(n, q) == IF q.kind = "finite" THEN Finite(n * q.den + q.num, q.den) ELSE q

\* Line 552: x of point j of a series of data_count points.
PointX(j, data_count, width) == Plus(50, Divide(j * (width - 100), data_count - 1))

\* Lines 421-428 and 553: y of a price.  With price_range = max_price - min_price
\* the padded bounds are min_price - price_range / 20 and max_price +
\* price_range / 20, so that y_scale = (height - 100) / (22 * price_range / 20)
\* and y = 50 + ((20 * max_price + price_range - 20 * price) / 20) * y_scale.
PointY(price, min_price, max_price, height) ==
    LET price_range == max_price - min_price
        y_scale == Divide(20 * (height - 100), 22 * price_range)
        scaled == Times(20 * max_price + price_range - 20 * price, y_scale)
    IN Plus(50, IF scaled.kind = "finite" THEN Finite(scaled.num, 20 * scaled.den) ELSE scaled)

\* Lines 550-552: the test a point passes to be drawn.
PlotsPoint(slot, j, garbage) ==
    /\ PriceAt(slot, j, garbage) > 0
    /\ slot.timestamps[j + 1] > 0
    /\ slot.timestamps[j + 1] < 1000000000

\* A variant of lines 549-565 that ends the line at the first point that
\* fails the test.
DrawPath_StopsAtGap(slot, garbage, alloc, min_price, max_price) ==
    LET RECURSIVE points(_, _)
        points(j, first_point) ==
            IF j >= slot.data_count THEN <<>>
            ELSE IF PlotsPoint(slot, j, garbage)
            THEN << [op |-> IF first_point THEN "cairo_move_to" ELSE "cairo_line_to",
                     j |-> j,
                     x |-> PointX(j, slot.data_count, alloc.width),
                     y |-> PointY(PriceAt(slot, j, garbage), min_price, max_price,
                                  alloc.height)] >>
                 \o points(j + 1, FALSE)
            ELSE <<>>
    IN points(0, TRUE)

\* Lines 546-565: the path of one series.
DrawPath(slot, garbage, alloc, min_price, max_price) ==
    LET RECURSIVE points(_, _)
        points(j, first_point) ==
            IF j >= slot.data_count THEN <<>>
            ELSE IF PlotsPoint(slot, j, garbage)
            THEN << [op |-> IF first_point THEN "cairo_move_to" ELSE "cairo_line_to",
                     j |-> j,
                     x |-> PointX(j, slot.data_count, alloc.width),
                     y |-> PointY(PriceAt(slot, j, garbage), min_price, max_price,
                                  alloc.height)] >>
                 \o points(j + 1, FALSE)
            ELSE points(j + 1, first_point)
    IN points(0, TRUE)

\* Lines 393-408: the prices the range loop takes into min_price and max_price.
PositivePrices(c, garbage) ==
    {p \in UNION {{PriceAt(c.chart_data[i], j, garbage) :
                      j \in 0..(c.chart_data[i].data_count - 1)} :
                  i \in {k \in 1..c.chart_data_count : Qualifies(c.chart_data[k])}} : p > 0}

\* Lines 537-573: every series with its path.
DrawLines(c, garbage, alloc, series) ==
    LET prices == PositivePrices(c, garbage)
        min_price == CHOOSE p \in prices : \A q \in prices : p <= q
        max_price == CHOOSE p \in prices : \A q \in prices : p >= q
    IN [k \in 1..Len(series) |->
           [path |-> DrawPath(c.chart_data[series[k].stock_index + 1], garbage, alloc,
                              min_price, max_price)] @@ series[k]]

chart_draw_cb(c, garbage, alloc) ==
    LET qualifying == {i \in 1..c.chart_data_count : Qualifies(c.chart_data[i])}
        null_deref == \E i \in qualifying : c.chart_data[i].prices = <<>>
        oob_read == \E i \in qualifying :
                        Len(c.chart_data[i].prices) < c.chart_data[i].data_count
        has_price == \E i \in qualifying :
                        \E j \in 0..(c.chart_data[i].data_count - 1) :
                            PriceAt(c.chart_data[i], j, garbage) > 0
        has_time == \E i \in qualifying :
                        LET slot == c.chart_data[i]
                        IN /\ slot.timestamps[1] > 0
                           /\ slot.timestamps[slot.data_count] > 0
                           \* timestamps are counted in units of 10 seconds:
                           \* 10 * t < 9999999999 exactly when t < 1000000000
                           /\ slot.timestamps[1] < 1000000000
    IN IF ~HasValidData(c)
       THEN [message |-> "Loading chart data...", fault |-> "none", series |-> <<>>]
       ELSE IF null_deref
       THEN [message |-> "", fault |-> "null_dereference", series |-> <<>>]
       ELSE [message |-> IF has_price /\ has_time THEN "" ELSE "No chart data available",
             fault |-> IF oob_read THEN "read_past_end" ELSE "none",
             series |-> IF has_price /\ has_time
                        THEN DrawLines(c, garbage, alloc,
                                 DrawSeries(SortOuter(CollectSortInfo(c, garbage), 1)))
                        ELSE <<>>]

NothingDrawn == [message |-> "", fault |-> "nothing drawn", series |-> <<>>]

(***************************************************************************)
(* Initial state: invest_applet_init has run, the factory has not.         *)
(***************************************************************************)
InitApplet ==
                [label |-> Text("Loading..."),
                 direction_icon |-> "dialog-information",
                 tooltip |-> NullText,
                 settings |-> FALSE,
                 update_timeout_id |-> 0,
                 stock_summary |-> NullText,
                 change_percent |-> 0,
                 refresh_interval |-> DEFAULT_UPDATE_INTERVAL,
                 cycle_interval |-> DEFAULT_CYCLE_INTERVAL,
                 pending_requests |-> 0,
                 total_symbols |-> 0,
                 stock_symbols |-> <<>>,
                 stock_prices |-> <<>>,
                 stock_changes |-> <<>>,
                 stock_valid |-> <<>>,
                 cycle_position |-> 0,
                 cycle_timeout_id |-> 0]

\* invest_chart_new
InitChart ==
    [window |-> FALSE, chart_data |-> <<>>, chart_data_count |-> 0,
     chart_range |-> "1d", chart_interval |-> "1m"]

InitRest ==
    /\ settings_symbols \in SymbolLists
    /\ sources = {}
    /\ stock_requests = {}
    /\ stale_stock_requests = [i \in SlotIndices |-> 0]
    /\ delivered = <<>>
    /\ signalled = FALSE
    /\ completed_valid = <<>>
    /\ heap_corrupt = FALSE
    /\ chart = InitChart
    /\ toolbar = <<>>
    /\ chart_requests = {}
    /\ stale_chart_requests = [i \in SlotIndices |-> 0]
    /\ chart_delivered = <<>>
    /\ redraw_queued = FALSE
    /\ drawn = NothingDrawn

Init == applet = InitApplet /\ InitRest

InFlight == Cardinality(stock_requests) + BagSize(stale_stock_requests)

\* A call of invest_applet_update_stocks that starts a generation is modelled
\* while it leaves at most MaxInFlight requests in flight.
MayUpdate(symbols) ==
    symbols = <<>> \/ ~applet.settings \/ InFlight + Len(symbols) <= MaxInFlight

\* A write past the end of the slot arrays is undefined behaviour: the model
\* records it in heap_corrupt and follows the program no further.  Nor does the
\* process go on after a read through a NULL pointer.
Running == ~heap_corrupt /\ drawn.fault # "null_dereference"

(***************************************************************************)
(* Actions of the ticker.                                                  *)
(***************************************************************************)
\* invest_applet_factory: settings, intervals, the periodic timer, the first fetch.
InvestAppletFactory ==
    /\ Running
    /\ ~applet.settings
    /\ \E r \in RefreshIntervals, c \in CycleIntervals :
          LET w1 == [World EXCEPT !.applet.settings = TRUE,
                                  !.applet.refresh_interval = r,
                                  !.applet.cycle_interval = c]
              w2 == g_timeout_add_seconds(w1, r * 60, "invest_applet_update_stocks",
                                          "update_timeout_id")
              w3 == invest_applet_update_stocks(w2, settings_symbols)
          IN Commit(invest_applet_update_display(w3))
    /\ UNCHANGED settings_symbols

\* The periodic timer fires invest_applet_update_stocks, which keeps the source.
UpdateTimerTick ==
    /\ Running
    /\ \E s \in sources : s.func = "invest_applet_update_stocks"
    /\ MayUpdate(settings_symbols)
    /\ Commit(invest_applet_update_stocks(World, settings_symbols))
    /\ UNCHANGED settings_symbols

\* invest_applet_refresh_cb: the Refresh menu item.
InvestAppletRefreshCb ==
    /\ Running
    /\ MayUpdate(settings_symbols)
    /\ Commit(invest_applet_update_stocks(World, settings_symbols))
    /\ UNCHANGED settings_symbols

\* invest_applet_preferences_cb, from the dialog's response on.
InvestAppletPreferencesCb ==
    /\ Running
    /\ \E response \in {"GTK_RESPONSE_OK", "GTK_RESPONSE_CANCEL"} :
        IF ~applet.settings \/ response # "GTK_RESPONSE_OK"
        THEN UNCHANGED vars
        ELSE \E new_symbols \in SymbolLists,
                new_refresh_interval \in RefreshIntervals,
                new_cycle_interval \in CycleIntervals :
             /\ MayUpdate(new_symbols)
             /\ settings_symbols' = new_symbols
             /\ LET w1 == IF new_refresh_interval # applet.refresh_interval
                          THEN g_timeout_add_seconds(
                                   [clear_timeout(World, "update_timeout_id")
                                       EXCEPT !.applet.refresh_interval = new_refresh_interval],
                                   new_refresh_interval * 60,
                                   "invest_applet_update_stocks", "update_timeout_id")
                          ELSE World
                    w2 == IF new_cycle_interval # w1.applet.cycle_interval
                          THEN LET c1 == [clear_timeout(w1, "cycle_timeout_id")
                                             EXCEPT !.applet.cycle_interval = new_cycle_interval]
                               IN IF c1.applet.total_symbols > 0
                                  THEN g_timeout_add_seconds(c1, new_cycle_interval,
                                           "invest_applet_cycle_stocks", "cycle_timeout_id")
                                  ELSE c1
                          ELSE w1
                IN Commit(invest_applet_update_stocks(w2, new_symbols))

\* The cycle timer fires invest_applet_cycle_stocks; G_SOURCE_REMOVE destroys the
\* source, and nothing resets cycle_timeout_id.
CycleTimerTick ==
    \E s \in sources :
        /\ Running
        /\ s.func = "invest_applet_cycle_stocks"
        /\ LET r == invest_applet_cycle_stocks(World)
           IN Commit(IF r.result = "G_SOURCE_REMOVE"
                     THEN [r.world EXCEPT !.sources = @ \ {s}]
                     ELSE r.world)
        /\ UNCHANGED settings_symbols

\* invest_applet_button_press with button 1: the result of the call is dropped.
InvestAppletButtonPress ==
    /\ Running
    /\ Commit(invest_applet_cycle_stocks(World).world)
    /\ UNCHANGED settings_symbols

\* The requests in flight, each with its slot index and whether a later
\* generation has superseded the one that issued it.
StockRequests ==
    {[stale |-> FALSE, idx |-> i] : i \in stock_requests}
    \cup {[stale |-> TRUE, idx |-> i] : i \in {j \in SlotIndices : stale_stock_requests[j] > 0}}

\* The session delivers the completion of one request in flight.
OnStockDataReceived ==
    \E req \in StockRequests, msg \in StockMessages :
        /\ Running
        /\ Commit(on_stock_data_received(World, req, msg))
        /\ UNCHANGED settings_symbols

Next ==
    \/ InvestAppletFactory
    \/ UpdateTimerTick
    \/ InvestAppletRefreshCb
    \/ InvestAppletPreferencesCb
    \/ CycleTimerTick
    \/ InvestAppletButtonPress
    \/ OnStockDataReceived

Spec == Init /\ [][Next]_vars

\* The session completes every request it was handed: each request in flight
\* is eventually delivered.  Nothing obliges a timer or the user to act.
FairSpec == Spec /\ WF_vars(OnStockDataReceived)

(***************************************************************************)
(* The extraction of on_stock_data_received as a function of the response: *)
(* the factory has started one generation, each of its requests completes  *)
(* with any of the response shapes, and the user clicks in between.        *)
(***************************************************************************)
QuoteInit ==
    /\ settings_symbols \in SymbolLists \ {<<>>}
    /\ \E r \in RefreshIntervals, c \in CycleIntervals :
          LET w0 == [applet |-> InitApplet, sources |-> {}, requests |-> {},
                     stale |-> [i \in SlotIndices |-> 0], delivered |-> <<>>,
                     signalled |-> FALSE, completed_valid |-> <<>>,
                     heap_corrupt |-> FALSE]
              w1 == [w0 EXCEPT !.applet.settings = TRUE,
                               !.applet.refresh_interval = r,
                               !.applet.cycle_interval = c]
              w2 == g_timeout_add_seconds(w1, r * 60, "invest_applet_update_stocks",
                                          "update_timeout_id")
              w3 == invest_applet_update_display(
                        invest_applet_update_stocks(w2, settings_symbols))
          IN /\ applet = w3.applet
             /\ sources = w3.sources
             /\ stock_requests = w3.requests
             /\ stale_stock_requests = w3.stale
             /\ delivered = w3.delivered
             /\ signalled = w3.signalled
             /\ completed_valid = w3.completed_valid
             /\ heap_corrupt = w3.heap_corrupt
    /\ chart = InitChart
    /\ toolbar = <<>>
    /\ chart_requests = {}
    /\ stale_chart_requests = [i \in SlotIndices |-> 0]
    /\ chart_delivered = <<>>
    /\ redraw_queued = FALSE
    /\ drawn = NothingDrawn

OnAnyStockDataReceived ==
    \E req \in StockRequests, msg \in AllStockMessages :
        /\ Running
        /\ Commit(on_stock_data_received(World, req, msg))
        /\ UNCHANGED settings_symbols

QuoteNext ==
    \/ OnAnyStockDataReceived
    \/ CycleTimerTick
    \/ InvestAppletButtonPress

QuoteSpec == QuoteInit /\ [][QuoteNext]_vars

(***************************************************************************)
(* Actions of the chart.  The chart belongs to an applet whose factory has *)
(* installed the settings; the ticker is left out of these behaviours.     *)
(***************************************************************************)
ChartInit == applet = [InitApplet EXCEPT !.settings = TRUE] /\ InitRest

ChartInFlight == Cardinality(chart_requests) + BagSize(stale_chart_requests)

\* A call of fetch_chart_data that starts a generation is modelled while it
\* leaves at most MaxChartInFlight requests in flight.
MayFetch(symbols) ==
    symbols = <<>> \/ ChartInFlight + Len(symbols) <= MaxChartInFlight

InvestChartShow ==
    /\ Running
    /\ MayFetch(settings_symbols)
    /\ ChartCommit(invest_chart_show(ChartWorld, applet.settings, settings_symbols))
    /\ UNCHANGED <<settings_symbols, drawn>>

\* What the window shows goes with the window.
Shown(w) == IF w.chart.window THEN drawn ELSE NothingDrawn

InvestChartHide ==
    /\ Running
    /\ ChartCommit(invest_chart_hide(ChartWorld))
    /\ drawn' = Shown(invest_chart_hide(ChartWorld))
    /\ UNCHANGED settings_symbols

\* The user closes the window: GTK destroys it and emits "destroy".
OnChartWindowDestroy ==
    /\ Running
    /\ chart.window
    /\ ChartCommit(on_chart_window_destroy(ChartWorld))
    /\ drawn' = Shown(on_chart_window_destroy(ChartWorld))
    /\ UNCHANGED settings_symbols

\* chart_window_key_press: Escape hides the window, other keys are not handled.
ChartWindowKeyPress ==
    /\ Running
    /\ chart.window
    /\ \E keyval \in {"GDK_KEY_Escape", "GDK_KEY_space"} :
          LET w == IF keyval = "GDK_KEY_Escape"
                   THEN invest_chart_hide(ChartWorld) ELSE ChartWorld
          IN ChartCommit(w) /\ drawn' = Shown(w)
    /\ UNCHANGED settings_symbols

InvestChartRefreshData ==
    /\ Running
    /\ MayFetch(settings_symbols)
    /\ ChartCommit(invest_chart_refresh_data(ChartWorld, applet.settings, settings_symbols))
    /\ UNCHANGED <<settings_symbols, drawn>>

\* Only a sensitive button of an existing toolbar emits "clicked".
ChartRangeButtonClicked ==
    \E button \in ClickedButtons :
        /\ Running
        /\ chart.window
        /\ toolbar[button].sensitive
        /\ MayFetch(settings_symbols)
        /\ ChartCommit(chart_range_button_clicked(ChartWorld, button, applet.settings,
                                                  settings_symbols))
        /\ UNCHANGED <<settings_symbols, drawn>>

\* The chart requests in flight, as StockRequests.
ChartRequests ==
    {[stale |-> FALSE, idx |-> r.idx] : r \in chart_requests}
    \cup {[stale |-> TRUE, idx |-> i] : i \in {j \in SlotIndices : stale_chart_requests[j] > 0}}

OnChartDataReceived ==
    \E req \in ChartRequests, msg \in ChartMessages :
        /\ Running
        /\ ChartCommit(on_chart_data_received(ChartWorld, req, msg))
        /\ UNCHANGED <<settings_symbols, drawn>>

\* GTK draws the window after a queued redraw and whenever it is exposed.
ChartDrawCb ==
    /\ Running
    /\ chart.window
    /\ \E garbage \in {0, 7}, alloc \in Allocations :
          drawn' = chart_draw_cb(chart, garbage, alloc)
    /\ redraw_queued' = FALSE
    /\ UNCHANGED <<settings_symbols, ticker_vars, heap_corrupt, chart, toolbar,
                   chart_requests, stale_chart_requests, chart_delivered>>

\* The "stock-symbols" key is written: by the preferences dialog, or from outside.
StockSymbolsChanged ==
    /\ Running
    /\ settings_symbols' \in SymbolLists
    /\ UNCHANGED <<ticker_vars, heap_corrupt, chart_vars>>

ChartNext ==
    \/ InvestChartShow
    \/ InvestChartHide
    \/ OnChartWindowDestroy
    \/ ChartWindowKeyPress
    \/ InvestChartRefreshData
    \/ ChartRangeButtonClicked
    \/ OnChartDataReceived
    \/ ChartDrawCb
    \/ StockSymbolsChanged

ChartSpec == ChartInit /\ [][ChartNext]_vars

(***************************************************************************)
(* The extraction on its own: one generation has been started, its window  *)
(* is open or has been closed again, and each of its requests completes    *)
(* with any of the response shapes.                                        *)
(***************************************************************************)
ExtractInit ==
    /\ applet = [InitApplet EXCEPT !.settings = TRUE]
    /\ settings_symbols \in SymbolLists \ {<<>>}
    /\ \E hidden \in BOOLEAN :
          LET w0 == [chart |-> InitChart, toolbar |-> <<>>, requests |-> {},
                     stale |-> [i \in SlotIndices |-> 0], delivered |-> <<>>,
                     redraw_queued |-> FALSE, heap_corrupt |-> FALSE]
              w1 == invest_chart_show(w0, TRUE, settings_symbols)
              w2 == IF hidden THEN invest_chart_hide(w1) ELSE w1
          IN /\ chart = w2.chart
             /\ toolbar = w2.toolbar
             /\ chart_requests = w2.requests
             /\ stale_chart_requests = w2.stale
             /\ chart_delivered = w2.delivered
             /\ redraw_queued = w2.redraw_queued
             /\ heap_corrupt = w2.heap_corrupt
    /\ sources = {}
    /\ stock_requests = {}
    /\ stale_stock_requests = [i \in SlotIndices |-> 0]
    /\ delivered = <<>>
    /\ signalled = FALSE
    /\ completed_valid = <<>>
    /\ drawn = NothingDrawn

OnAnyChartDataReceived ==
    \E req \in ChartRequests, msg \in AllChartMessages :
        /\ Running
        /\ ChartCommit(on_chart_data_received(ChartWorld, req, msg))
        /\ UNCHANGED <<settings_symbols, drawn>>

ExtractNext ==
    \/ OnAnyChartDataReceived
    \/ ChartDrawCb

ExtractSpec == ExtractInit /\ [][ExtractNext]_vars

(***************************************************************************)
(* The renderer on its own: the window is open on a completed generation   *)
(* of MaxSeries symbols, each of which got a series or nothing.            *)
(***************************************************************************)
RenderSymbols == [i \in 1..MaxSeries |-> Universe[((i - 1) % Len(Universe)) + 1]]

RenderMessages ==
    {Message(500, Garbage),
     Message(SOUP_STATUS_OK, SeriesDoc(TwoTimestamps, JArray(<<JDouble(10), JDouble(11)>>))),
     Message(SOUP_STATUS_OK, SeriesDoc(JArray(<<JInt(1000), JInt(1010), JInt(1020)>>),
                                       JArray(<<JDouble(10), JDouble(11), JDouble(12)>>)))}

\* The completions of requests i..MaxSeries - 1, each with its message.
RECURSIVE DeliverAll(_, _, _)
DeliverAll(w, msgs, i) ==
    IF i >= MaxSeries THEN w
    ELSE DeliverAll(on_chart_data_received(w, [stale |-> FALSE, idx |-> i], msgs[i + 1]),
                    msgs, i + 1)

RenderInit ==
    /\ applet = [InitApplet EXCEPT !.settings = TRUE]
    /\ settings_symbols = RenderSymbols
    /\ \E msgs \in [1..MaxSeries -> RenderMessages] :
          LET w0 == [chart |-> InitChart, toolbar |-> <<>>, requests |-> {},
                     stale |-> [i \in SlotIndices |-> 0], delivered |-> <<>>,
                     redraw_queued |-> FALSE, heap_corrupt |-> FALSE]
          IN \E w1 \in {DeliverAll(invest_chart_show(w0, TRUE, settings_symbols), msgs, 0)} :
             /\ chart = w1.chart
             /\ toolbar = w1.toolbar
             /\ chart_requests = w1.requests
             /\ stale_chart_requests = w1.stale
             /\ chart_delivered = w1.delivered
             /\ redraw_queued = w1.redraw_queued
             /\ heap_corrupt = w1.heap_corrupt
    /\ sources = {}
    /\ stock_requests = {}
    /\ stale_stock_requests = [i \in SlotIndices |-> 0]
    /\ delivered = <<>>
    /\ signalled = FALSE
    /\ completed_valid = <<>>
    /\ drawn = NothingDrawn

RenderNext ==
    \/ ChartDrawCb
    \/ OnChartWindowDestroy

RenderSpec == RenderInit /\ [][RenderNext]_vars

(***************************************************************************)
(* Steps named by the properties of the ticker.                            *)
(***************************************************************************)
\* A completion of a request of a superseded generation is delivered.
StaleStockDelivered ==
    \E i \in SlotIndices : stale_stock_requests'[i] = stale_stock_requests[i] - 1

\* A completion of a request of the current generation is delivered.
CurrentStockDelivered ==
    \E i \in stock_requests : stock_requests' = stock_requests \ {i}

\* A completion runs the pending_requests == 0 branch.
GenerationCompleteStep ==
    /\ StaleStockDelivered \/ CurrentStockDelivered
    /\ applet'.pending_requests = 0

\* A call of invest_applet_update_stocks from the timer, the menu or the dialog.
Retrigger ==
    /\ applet.settings
    /\ UpdateTimerTick \/ InvestAppletRefreshCb \/ InvestAppletPreferencesCb

\* A call of invest_applet_update_stocks starts a generation.
StartsGeneration ==
    /\ InvestAppletFactory \/ Retrigger
    /\ settings_symbols' # <<>>

\* At least one generation was started.
GenerationStarted == applet.total_symbols > 0

(***************************************************************************)
(* C2: a completion of a superseded ticker generation changes none of the  *)
(* current generation's stock_prices, stock_changes, stock_valid and       *)
(* pending_requests, nor the text shown in the panel.                      *)
(***************************************************************************)
C2_StaleCompletionLeavesTickerUntouched ==
    [][StaleStockDelivered =>
        /\ applet'.stock_prices = applet.stock_prices
        /\ applet'.stock_changes = applet.stock_changes
        /\ applet'.stock_valid = applet.stock_valid
        /\ applet'.pending_requests = applet.pending_requests
        /\ applet'.label = applet.label]_vars

(***************************************************************************)
(* C3: in every reachable state pending_requests is the number of requests *)
(* of the current generation still in flight (so it is never negative).    *)
(***************************************************************************)
C3_PendingCountsOutstanding ==
    applet.pending_requests = Cardinality(stock_requests)

(***************************************************************************)
(* C4: the pending_requests == 0 branch runs only when every request of    *)
(* the current generation has completed and written its slot.              *)
(***************************************************************************)
C4_CompleteOnlyAfterAllCompletions ==
    [][GenerationCompleteStep =>
        /\ stock_requests' = {}
        /\ \A i \in 1..applet'.total_symbols : delivered'[i].received]_vars

(***************************************************************************)
(* C5: once every request of the current generation has been delivered and *)
(* no newer generation has started, the pending_requests == 0 branch has   *)
(* run on the generation's last completion, however many requests of       *)
(* earlier generations were in flight when the generation started.         *)
(***************************************************************************)
C5_GenerationEventuallyCompletes ==
    (GenerationStarted /\ stock_requests = {}) => signalled

(***************************************************************************)
(* C6: once every completion of the current generation is delivered, the   *)
(* collection holds, slot by slot, what was delivered for that slot, and   *)
(* on the last completion the panel shows the first valid symbol of it: a  *)
(* result that does not depend on the order of arrival.                    *)
(***************************************************************************)
DeliveredValid == {i \in 1..Len(delivered) : delivered[i].valid}

ExpectedLabel(a, d) ==
    LET valid == {i \in 1..Len(d) : d[i].valid}
        first == CHOOSE i \in valid : \A j \in valid : i <= j
        sym == a.stock_symbols[first]
        eq == strchr(sym, "=")
    IN IF valid = {} THEN Text("No valid stock data")
       ELSE PriceText(IF eq >= 0 THEN SubSeq(sym, 1, eq) ELSE sym, d[first].price)

C6_ResultIndependentOfArrivalOrder ==
    /\ [](GenerationStarted /\ stock_requests = {} =>
            \A i \in 1..applet.total_symbols :
                /\ applet.stock_valid[i] = delivered[i].valid
                /\ applet.stock_prices[i] = delivered[i].price
                /\ applet.stock_changes[i] = delivered[i].change)
    /\ [][(CurrentStockDelivered /\ stock_requests' = {}) =>
            applet'.label = ExpectedLabel(applet', delivered')]_vars

(***************************************************************************)
(* C7: every re-trigger of the fetch replaces the collection by one        *)
(* invalid, empty slot per configured symbol, for the empty list too.      *)
(***************************************************************************)
FreshCollection(a, symbols) ==
    /\ a.total_symbols = Len(symbols)
    /\ a.stock_symbols = symbols
    /\ Len(a.stock_valid) = Len(symbols)
    /\ \A i \in 1..Len(a.stock_valid) :
          ~a.stock_valid[i] /\ a.stock_prices[i] = 0 /\ a.stock_changes[i] = 0

C7_RetriggerReplacesCollection ==
    [][Retrigger => FreshCollection(applet', settings_symbols')]_vars

(***************************************************************************)
(* C9: when a ticker generation completes, the tooltip lists every symbol  *)
(* whose slot is invalid as "SYMBOL: No data", also when no slot is valid. *)
(***************************************************************************)
C9_TooltipListsFailedSymbols ==
    [][GenerationCompleteStep =>
        \A i \in 1..applet'.total_symbols :
            ~applet'.stock_valid[i] =>
                /\ i <= Len(applet'.tooltip.lines)
                /\ applet'.tooltip.lines[i] = NoDataLine(applet'.stock_symbols[i])]_vars


(***************************************************************************)
(* Steps and states named by the properties of the chart.                  *)
(***************************************************************************)
StaleChartDelivered ==
    \E i \in SlotIndices : stale_chart_requests'[i] = stale_chart_requests[i] - 1

ChartGenerationStarted == chart.chart_data_count > 0

\* Every request of the current chart generation has completed.
ChartGenerationDone == ChartGenerationStarted /\ chart_requests = {}

\* No request of the current chart generation has completed.
ChartNothingReceived ==
    \A i \in 1..Len(chart_delivered) : ~chart_delivered[i].received

(***************************************************************************)
(* C1: a completion of a superseded chart generation leaves every slot of  *)
(* the current generation's chart_data unchanged.                          *)
(***************************************************************************)
C1_StaleCompletionLeavesChartUntouched ==
    [][StaleChartDelivered => chart'.chart_data = chart.chart_data]_vars

(***************************************************************************)
(* C8: when no series qualifies, a draw shows the loading message while no *)
(* completion of the generation is known and "No chart data available"     *)
(* once all its requests have completed.                                   *)
(***************************************************************************)
C8_PlaceholderTellsLoadingFromNoData ==
    [][(ChartDrawCb /\ ~HasValidData(chart)) =>
        /\ ChartGenerationDone => drawn'.message = "No chart data available"
        /\ ChartNothingReceived => drawn'.message = "Loading chart data..."]_vars

(***************************************************************************)
(* C10 as stated: every slot with valid = FALSE has data_count = 0 and no  *)
(* timestamps and no prices.                                               *)
(***************************************************************************)
C10_InvalidSlotIsEmpty ==
    \A i \in 1..chart.chart_data_count :
        ~chart.chart_data[i].valid =>
            /\ chart.chart_data[i].data_count = 0
            /\ chart.chart_data[i].timestamps = <<>>
            /\ chart.chart_data[i].prices = <<>>

(***************************************************************************)
(* C10 as amended: every slot with valid = FALSE has no prices, and its    *)
(* timestamps array has exactly data_count elements.                       *)
(***************************************************************************)
C10_InvalidSlotHasNoPrices ==
    \A i \in 1..chart.chart_data_count :
        ~chart.chart_data[i].valid =>
            /\ chart.chart_data[i].prices = <<>>
            /\ Len(chart.chart_data[i].timestamps) = chart.chart_data[i].data_count

\* An invalid slot holds the timestamps of a response without a close array.
C10_Witness ==
    \E i \in 1..chart.chart_data_count :
        /\ ~chart.chart_data[i].valid
        /\ chart.chart_data[i].data_count > 0
        /\ chart_delivered[i].received


(***************************************************************************)
(* What a response says, read off the document itself: a member or element *)
(* that is not there is Absent.                                            *)
(***************************************************************************)
Absent == [type |-> "absent"]

Member(node, k) ==
    IF node.type = "object" /\ k \in DOMAIN node.members THEN node.members[k] ELSE Absent

Element(node, i) ==
    IF node.type = "array" /\ i < Len(node.elems) THEN node.elems[i + 1] ELSE Absent

\* The document of a response: none when the fetch failed or the body is not JSON.
ResponseDocument(msg) ==
    IF msg.status_code = 200 /\ msg.body.type # "garbage" THEN msg.body ELSE Absent

ResponseResults(msg) == Member(Member(ResponseDocument(msg), "chart"), "result")

\* result[0].timestamp
ResponseTimestamp(msg) == Member(Element(ResponseResults(msg), 0), "timestamp")

\* result[0].indicators.quote[0].close
ResponseClose(msg) ==
    Member(Element(Member(Member(Element(ResponseResults(msg), 0), "indicators"), "quote"), 0),
           "close")

\* The slots whose request of the current generation has completed.
DeliveredSlots == {i \in 1..Len(chart_delivered) : chart_delivered[i].received}

IsEmptySlot(slot) ==
    ~slot.valid /\ slot.data_count = 0 /\ slot.timestamps = <<>> /\ slot.prices = <<>>

(***************************************************************************)
(* C11 as stated: in every slot timestamps has data_count elements, and    *)
(* prices has data_count elements when the response had a close array and  *)
(* none otherwise.                                                         *)
(***************************************************************************)
C11_PricesHaveDataCountElements ==
    \A i \in 1..chart.chart_data_count :
        LET slot == chart.chart_data[i]
            close_present == /\ i \in DeliveredSlots
                             /\ ResponseClose(chart_delivered[i].msg).type = "array"
        IN /\ Len(slot.timestamps) = slot.data_count
           /\ Len(slot.prices) = IF close_present THEN slot.data_count ELSE 0

(***************************************************************************)
(* C11 as amended: in every slot timestamps has data_count elements, and   *)
(* prices has as many elements as the close array of the response, none    *)
(* when the response had no close array.                                   *)
(***************************************************************************)
C11_PricesHaveCloseLength ==
    \A i \in 1..chart.chart_data_count :
        LET slot == chart.chart_data[i]
            close == IF i \in DeliveredSlots
                     THEN ResponseClose(chart_delivered[i].msg) ELSE Absent
        IN /\ Len(slot.timestamps) = slot.data_count
           /\ Len(slot.prices) = IF close.type = "array" THEN Len(close.elems) ELSE 0

\* A slot filled from a response whose close array is shorter than its timestamps.
C11_Witness ==
    \E i \in DeliveredSlots :
        /\ ResponseClose(chart_delivered[i].msg).type = "array"
        /\ Len(ResponseClose(chart_delivered[i].msg).elems) > 0
        /\ Len(chart.chart_data[i].prices) < chart.chart_data[i].data_count

(***************************************************************************)
(* C12: after a completion against a fresh slot, valid is true exactly     *)
(* when result[0].indicators.quote[0].close of the response is an array,   *)
(* be it empty.                                                            *)
(***************************************************************************)
C12_ValidIffCloseIsArray ==
    \A i \in DeliveredSlots :
        chart.chart_data[i].valid <=> ResponseClose(chart_delivered[i].msg).type = "array"

\* A slot made valid by a close array without elements.
C12_Witness ==
    \E i \in DeliveredSlots :
        /\ ResponseClose(chart_delivered[i].msg) = JArray(<<>>)
        /\ chart.chart_data[i].valid

(***************************************************************************)
(* C13: when result[0].timestamp is an array, data_count and the length of *)
(* timestamps are its length, and position k holds the element's value if  *)
(* the element is an integer and 0 if it is not.                           *)
(***************************************************************************)
C13_TimestampsCopiedInPlace ==
    \A i \in DeliveredSlots :
        LET input == ResponseTimestamp(chart_delivered[i].msg)
            slot == chart.chart_data[i]
        IN input.type = "array" =>
              /\ slot.data_count = Len(input.elems)
              /\ Len(slot.timestamps) = Len(input.elems)
              /\ \A k \in 1..Len(input.elems) :
                    slot.timestamps[k] =
                        IF input.elems[k].type = "int" THEN input.elems[k].val ELSE 0

\* A slot filled from a timestamp array that mixes integers with elements that
\* are not integers.
C13_Witness ==
    \E i \in DeliveredSlots :
        LET input == ResponseTimestamp(chart_delivered[i].msg)
        IN /\ input.type = "array"
           /\ \E k \in 1..Len(input.elems) : input.elems[k].type # "int"
           /\ \E k \in 1..Len(input.elems) : input.elems[k].type = "int"
           /\ chart.chart_data[i].data_count = Len(input.elems)

(***************************************************************************)
(* C14: every element of the close array that is a JSON number, written    *)
(* with or without a fractional part, is in prices at its index; the other *)
(* elements are 0.                                                         *)
(***************************************************************************)
C14_EveryNumberCopied ==
    \A i \in DeliveredSlots :
        LET input == ResponseClose(chart_delivered[i].msg)
            slot == chart.chart_data[i]
        IN input.type = "array" =>
              /\ Len(slot.prices) = Len(input.elems)
              /\ \A k \in 1..Len(input.elems) :
                    slot.prices[k] =
                        IF input.elems[k].type \in {"int", "double"}
                        THEN input.elems[k].val ELSE 0

(***************************************************************************)
(* C15: a completion whose status is not OK, or whose body is not JSON,    *)
(* leaves its slot invalid and empty; the handler returns, having asked    *)
(* for a redraw if the window is there.                                    *)
(***************************************************************************)
FetchOrParseFailed(msg) == msg.status_code # 200 \/ msg.body.type = "garbage"

C15_FailedFetchLeavesSlotEmpty ==
    [][\A i \in 1..Len(chart_delivered) :
          (/\ ~chart_delivered[i].received
           /\ Len(chart_delivered') = Len(chart_delivered)
           /\ chart_delivered'[i].received
           /\ FetchOrParseFailed(chart_delivered'[i].msg))
          => /\ IsEmptySlot(chart'.chart_data[i])
             /\ ~heap_corrupt'
             /\ chart.window => redraw_queued']_vars

\* A failed completion has been handled with the window open.
C15_Witness ==
    /\ chart.window
    /\ redraw_queued
    /\ \E i \in DeliveredSlots :
          /\ FetchOrParseFailed(chart_delivered[i].msg)
          /\ IsEmptySlot(chart.chart_data[i])
    /\ \E i \in DeliveredSlots : chart_delivered[i].msg.status_code = 404

(***************************************************************************)
(* C16: a completion with status OK whose document has no chart, or whose  *)
(* chart.result is missing, null or an empty array, leaves its slot        *)
(* invalid and empty.                                                      *)
(***************************************************************************)
NoResult(msg) ==
    /\ ~FetchOrParseFailed(msg)
    /\ \/ ResponseResults(msg).type \in {"absent", "null"}
       \/ ResponseResults(msg) = JArray(<<>>)

C16_NoResultLeavesSlotEmpty ==
    \A i \in DeliveredSlots :
        NoResult(chart_delivered[i].msg) => IsEmptySlot(chart.chart_data[i])

\* A document with "chart" but a null result has been handled.
C16_Witness ==
    \E i \in DeliveredSlots :
        /\ chart_delivered[i].msg.body = ChartDoc(JNull)
        /\ NoResult(chart_delivered[i].msg)
        /\ IsEmptySlot(chart.chart_data[i])


(***************************************************************************)
(* Steps of the chart: a call of fetch_chart_data that issues requests,    *)
(* and a click on a preset button.                                         *)
(***************************************************************************)
ChartStartsGeneration ==
    \/ chart_requests' \ chart_requests # {}
    \/ \E i \in SlotIndices : stale_chart_requests'[i] > stale_chart_requests[i]

\* Only chart_range_button_clicked assigns chart_range, and the buttons that
\* can be clicked carry another range than the current one.
PresetClicked == chart'.chart_range # chart.chart_range

(***************************************************************************)
(* C17: within one generation a slot that a completion has populated is    *)
(* not written by another completion before the next generation starts.    *)
(***************************************************************************)
C17_SlotPopulatedOnce ==
    [][\A i \in 1..chart.chart_data_count :
          (/\ ~ChartStartsGeneration
           /\ chart.chart_data[i] # EmptySlot(chart.chart_data[i].symbol))
          => chart'.chart_data[i] = chart.chart_data[i]]_vars

(***************************************************************************)
(* C18: a click on a preset button sets chart_range and chart_interval to  *)
(* the range and interval of that button's table entry, and every request  *)
(* of the generation the click starts carries that range and interval.     *)
(***************************************************************************)
C18_ClickSetsPresetPair ==
    [][PresetClicked =>
          \E b \in 1..Len(ranges) :
              /\ toolbar[b].sensitive
              /\ ~toolbar'[b].sensitive
              /\ chart'.chart_range = ranges[b].range
              /\ chart'.chart_interval = ranges[b].interval
              /\ settings_symbols # <<>> =>
                    /\ Cardinality(chart_requests') = Len(settings_symbols)
                    /\ \A r \in chart_requests' :
                          r.range = ranges[b].range /\ r.interval = ranges[b].interval]_vars

\* The second preset has been clicked and its generation is in flight.
C18_Witness ==
    /\ chart.chart_range = "5d"
    /\ chart.chart_interval = "5m"
    /\ chart_requests # {}
    /\ \A r \in chart_requests : r.range = "5d" /\ r.interval = "5m"

(***************************************************************************)
(* C19: whenever the toolbar exists exactly one of its buttons is          *)
(* insensitive, and it is the button of the active range and interval; a   *)
(* click on the active preset is therefore not delivered.                  *)
(***************************************************************************)
C19_ActivePresetButtonInsensitive ==
    toolbar # <<>> =>
        /\ Cardinality({b \in 1..Len(toolbar) : ~toolbar[b].sensitive}) = 1
        /\ \A b \in 1..Len(toolbar) :
              ~toolbar[b].sensitive <=>
                  /\ ranges[b].range = chart.chart_range
                  /\ ranges[b].interval = chart.chart_interval

\* The toolbar after a click on the second preset, the first selectable again.
C19_Witness ==
    /\ toolbar # <<>>
    /\ chart.chart_range = "5d"
    /\ ~toolbar[2].sensitive
    /\ toolbar[1].sensitive


(***************************************************************************)
(* C20: the drawn series are the qualifying slots, each once, in           *)
(* non-increasing order of last price; the series at rank k (from 0) has   *)
(* palette colour k mod 8 and the k-th legend row.                         *)
(***************************************************************************)
QualifyingSlots == {i \in 0..(chart.chart_data_count - 1) : Qualifies(chart.chart_data[i + 1])}

LastPrice(i) == chart.chart_data[i + 1].prices[chart.chart_data[i + 1].data_count]

C20_SeriesSortedByLastPrice ==
    (drawn # NothingDrawn /\ chart.window) =>
        /\ Len(drawn.series) = Cardinality(QualifyingSlots)
        /\ {drawn.series[k].stock_index : k \in 1..Len(drawn.series)} = QualifyingSlots
        /\ \A k \in 1..(Len(drawn.series) - 1) :
              LastPrice(drawn.series[k].stock_index)
                  >= LastPrice(drawn.series[k + 1].stock_index)
        /\ \A k \in 1..Len(drawn.series) :
              /\ drawn.series[k].color = colors[((k - 1) % 8) + 1]
              /\ drawn.series[k].legend_y = 30 + 20 * (k - 1)

\* Nine series drawn, the first slot not the highest: the sort has exchanged
\* entries and the ninth series has the first colour again.
C20_Witness ==
    /\ Len(drawn.series) = 9
    /\ drawn.series[1].stock_index # 0
    /\ drawn.series[9].color = colors[1]
    /\ \E k \in 1..8 : LastPrice(drawn.series[k].stock_index)
                           > LastPrice(drawn.series[k + 1].stock_index)

(***************************************************************************)
(* C21: when a series qualifies but no qualifying series holds a strictly  *)
(* positive price, or none has endpoints that pass the timestamp check,    *)
(* the draw emits the "No chart data available" placeholder and draws no   *)
(* series.                                                                 *)
(***************************************************************************)
NoPositivePrice ==
    \A i \in QualifyingSlots :
        \A k \in 1..Len(chart.chart_data[i + 1].prices) :
            chart.chart_data[i + 1].prices[k] <= 0

NoSaneEndpoints ==
    \A i \in QualifyingSlots :
        LET slot == chart.chart_data[i + 1]
        IN ~(/\ slot.timestamps[1] > 0
             /\ slot.timestamps[Len(slot.timestamps)] > 0
             /\ slot.timestamps[1] < 1000000000)

C21_DegenerateRangeDrawsPlaceholder ==
    [][(ChartDrawCb /\ QualifyingSlots # {} /\ (NoPositivePrice \/ NoSaneEndpoints)) =>
        /\ drawn'.message = "No chart data available"
        /\ drawn'.series = <<>>]_vars

(***************************************************************************)
(* C22: a timer tick or a left click with at least two valid symbols sets  *)
(* cycle_position to (cycle_position + 1) mod valid_count and displays the *)
(* symbol at that position of the valid slots taken in slot order;         *)
(* cycle_position always lies within the valid slots, so successive        *)
(* activations visit each valid symbol once before repeating.              *)
(***************************************************************************)
ValidSlots(a) == {i \in 0..(a.total_symbols - 1) : a.stock_valid[i + 1]}

\* The valid slot that has exactly n valid slots below it.
NthValid(a, n) ==
    CHOOSE i \in ValidSlots(a) : Cardinality({j \in ValidSlots(a) : j < i}) = n

\* The symbol without its exchange suffix.
BareSymbol(sym) ==
    IF \E k \in 1..Len(sym) : sym[k] = "="
    THEN SubSeq(sym, 1, (CHOOSE k \in 1..Len(sym) :
                            sym[k] = "=" /\ \A m \in 1..(k - 1) : sym[m] # "=") - 1)
    ELSE sym

Shows(a, i) ==
    a.label = PriceText(BareSymbol(a.stock_symbols[i + 1]), a.stock_prices[i + 1])

CycleActivation == CycleTimerTick \/ InvestAppletButtonPress

CycleTimerArmed ==
    \E s \in sources :
        s.func = "invest_applet_cycle_stocks" /\ s.id = applet.cycle_timeout_id

C23_NoCycleTimerForSingleValidSymbol ==
    [][((GenerationCompleteStep \/ InvestAppletPreferencesCb)
            /\ Cardinality(ValidSlots(applet')) = 1) =>
        ~CycleTimerArmed']_vars

(***************************************************************************)
(* C24: the step that completes a ticker generation leaves cycle_position  *)
(* at 0 and the panel showing the valid symbol of the lowest slot index,   *)
(* or "No valid stock data" when no slot is valid.                         *)
(***************************************************************************)
LowestValid(a) == CHOOSE i \in ValidSlots(a) : \A j \in ValidSlots(a) : i <= j

C24_CompletionShowsFirstValidSymbol ==
    [][GenerationCompleteStep =>
        /\ applet'.cycle_position = 0
        /\ IF ValidSlots(applet') = {}
           THEN applet'.label = Text("No valid stock data")
           ELSE Shows(applet', LowestValid(applet'))]_vars

C24_Witness ==
    /\ signalled
    /\ applet.pending_requests = 0
    /\ applet.cycle_position = 0
    /\ applet.total_symbols = 2
    /\ ValidSlots(applet) = {1}
    /\ Shows(applet, 1)

(***************************************************************************)
(* C25: a timer tick or click works on the list of valid slots             *)
(* as the last generation completion found it.                             *)
(***************************************************************************)
\* What an activation does with the list `list` of valid slot indices.
CyclesThrough(list) ==
    IF Len(list) = 0
    THEN applet'.label = Text("No valid stock data")
    ELSE IF Len(list) = 1
    THEN applet' = applet
    ELSE /\ applet'.cycle_position = (applet.cycle_position + 1) % Len(list)
         /\ Shows(applet', list[applet'.cycle_position + 1])

C25_CycleUsesListOfLastCompletion ==
    [][(CycleActivation /\ applet.total_symbols > 0) => CyclesThrough(completed_valid)]_vars

(***************************************************************************)
(* C26: a completion marks its ticker slot valid, with the price and with  *)
(* stock_changes = (current - previousClose) / previousClose * 100, only   *)
(* if regularMarketPrice and previousClose of the response are both        *)
(* strictly positive; otherwise the slot stays invalid with price and      *)
(* change 0.                                                               *)
(***************************************************************************)
\* The number a member of the response holds; 0 when it is absent or no number.
NumberOf(node) == IF node.type \in {"int", "double"} THEN node.val ELSE 0

ResponseMeta(msg) == Member(Element(ResponseResults(msg), 0), "meta")

\* The step delivers msg as the completion of the current request of slot i.
DeliversQuote(i, msg) ==
    /\ Commit(on_stock_data_received(World, [stale |-> FALSE, idx |-> i], msg))
    /\ UNCHANGED settings_symbols

C26_ValidOnlyForPositivePriceAndClose ==
    [][\A i \in stock_requests, msg \in AllStockMessages :
        DeliversQuote(i, msg) =>
            LET current == NumberOf(Member(ResponseMeta(msg), "regularMarketPrice"))
                previous == NumberOf(Member(ResponseMeta(msg), "previousClose"))
            IN IF current > 0 /\ previous > 0
               THEN /\ applet'.stock_valid[i + 1]
                    /\ applet'.stock_prices[i + 1] = current
                    /\ applet'.stock_changes[i + 1] * previous = (current - previous) * 100
               ELSE /\ ~applet'.stock_valid[i + 1]
                    /\ applet'.stock_prices[i + 1] = 0
                    /\ applet'.stock_changes[i + 1] = 0]_vars

C26_Witness ==
    /\ applet.total_symbols = 2
    /\ stock_requests = {}
    /\ applet.stock_valid[1] /\ applet.stock_prices[1] = 3 /\ applet.stock_changes[1] = -25
    /\ ~applet.stock_valid[2] /\ applet.stock_prices[2] = 0 /\ applet.stock_changes[2] = 0

(***************************************************************************)
(* C27: every chart completion delivered while the window is there queues  *)
(* a redraw; the slot of a request that has not completed stays invalid    *)
(* and empty, and a draw that renders the chart renders every qualifying   *)
(* series, whether or not requests are still in flight.                    *)
(***************************************************************************)
SeriesDrawn == {drawn.series[k].stock_index : k \in 1..Len(drawn.series)}

C27_RedrawAfterEveryCompletion ==
    /\ [](\A i \in 1..chart.chart_data_count :
            ~chart_delivered[i].received => IsEmptySlot(chart.chart_data[i]))
    /\ [][(OnAnyChartDataReceived /\ chart.window) => redraw_queued']_vars
    /\ [][(ChartDrawCb /\ drawn'.message = "" /\ drawn'.fault # "null_dereference") =>
            SeriesDrawn' = QualifyingSlots]_vars

\* One request is in flight, the other series is on the screen.
C27_Witness ==
    /\ chart.window
    /\ chart.chart_data_count = 2
    /\ Cardinality(chart_requests) = 1
    /\ ~redraw_queued
    /\ drawn.fault = "none"
    /\ Len(drawn.series) = 1
    /\ \E i \in 1..2 :
          /\ ~chart_delivered[i].received
          /\ ~chart.chart_data[i].valid
          /\ SeriesDrawn = {2 - i}

(***************************************************************************)
(* C28: while a ticker generation has pending_requests > 0, a timer tick   *)
(* or click chooses no symbol for display: it changes neither the panel    *)
(* nor cycle_position.                                                     *)
(***************************************************************************)
C28_NoCycleWhilePending ==
    [][(CycleActivation /\ applet.pending_requests > 0) =>
        /\ applet'.label = applet.label
        /\ applet'.cycle_position = applet.cycle_position]_vars

(***************************************************************************)
(* C29: every write of a completion handler goes to a slot index below the *)
(* current slot count (total_symbols, chart_data_count), in every          *)
(* interleaving of generation starts and completions.                      *)
(***************************************************************************)
C29_WritesWithinSlotCount == ~heap_corrupt

(***************************************************************************)
(* C30: a draw reads prices[j] and timestamps[j] of a qualifying series     *)
(* only at indices below the length of that array.                         *)
(***************************************************************************)
C30_ReadsWithinArrays == drawn.fault \in {"none", "nothing drawn"}

(***************************************************************************)
(* C31: a chart completion for slot i of the collection, whatever its      *)
(* response, leaves every other slot of chart_data and the slot count      *)
(* unchanged.                                                              *)
(***************************************************************************)
\* The step delivers a completion that carries slot index i: one request for
\* slot i leaves the requests in flight, which no other handler brings about.
ChartCompletionFor(i) ==
    \/ /\ stale_chart_requests[i] > 0
       /\ stale_chart_requests' = [stale_chart_requests EXCEPT ![i] = @ - 1]
       /\ chart_requests' = chart_requests
    \/ /\ stale_chart_requests' = stale_chart_requests
       /\ \E r \in chart_requests : r.idx = i /\ chart_requests' = chart_requests \ {r}

GoodPoints(slot) ==
    {j \in 0..(slot.data_count - 1) :
        /\ slot.prices[j + 1] > 0
        /\ slot.timestamps[j + 1] > 0
        /\ slot.timestamps[j + 1] < 1000000000}

C32_PathHoldsExactlyThePlottablePoints ==
    [][ChartDrawCb =>
        \A k \in 1..Len(drawn'.series) :
            LET slot == chart.chart_data[drawn'.series[k].stock_index + 1]
                path == drawn'.series[k].path
            IN Len(slot.prices) = slot.data_count =>
                /\ {path[n].j : n \in 1..Len(path)} = GoodPoints(slot)
                /\ \A n \in 1..(Len(path) - 1) : path[n].j < path[n + 1].j
                /\ \A n \in 1..Len(path) :
                      path[n].op = IF n = 1 THEN "cairo_move_to" ELSE "cairo_line_to"]_vars

\* A series was drawn across a point that failed the test.
C32_Witness ==
    \E k \in 1..Len(drawn.series) :
        LET path == drawn.series[k].path
        IN /\ Len(path) = 2
           /\ path[1].j = 0 /\ path[1].op = "cairo_move_to"
           /\ path[2].j = 2 /\ path[2].op = "cairo_line_to"

(***************************************************************************)
(* C33: in a draw that reads within its arrays, x of every drawn point is  *)
(* a number, 50 + j * (width - 100) / (data_count - 1) with a nonzero      *)
(* divisor, between 50 and width - 50.                                     *)
(***************************************************************************)
\* lo <= q <= hi for a gdouble q; no comparison with NaN holds.
Within(q, lo, hi) ==
    /\ q.kind = "finite"
    /\ lo * q.den <= q.num
    /\ q.num <= hi * q.den

C33_XWithinPlotArea ==
    [][(ChartDrawCb /\ drawn'.fault = "none") =>
        \A alloc \in Allocations :
            (\E garbage \in {0, 7} : drawn' = chart_draw_cb(chart, garbage, alloc)) =>
                \A k \in 1..Len(drawn'.series) :
                    \A n \in 1..Len(drawn'.series[k].path) :
                        Within(drawn'.series[k].path[n].x, 50, alloc.width - 50)]_vars

(***************************************************************************)
(* C34: whenever a draw that reads within its arrays gets past the test    *)
(* for chart data, the padded price span is strictly positive, and y of    *)
(* every drawn point is a number between 50 and height - 50, also when all *)
(* positive prices are equal.                                              *)
(***************************************************************************)
C34_YWithinPlotArea ==
    [][(ChartDrawCb /\ drawn'.fault = "none") =>
        \A alloc \in Allocations :
            (\E garbage \in {0, 7} : drawn' = chart_draw_cb(chart, garbage, alloc)) =>
                \A k \in 1..Len(drawn'.series) :
                    \A n \in 1..Len(drawn'.series[k].path) :
                        Within(drawn'.series[k].path[n].y, 50, alloc.height - 50)]_vars

(***************************************************************************)
(* C35: while the configured list is empty and the panel says "No stocks   *)
(* configured", no cycle-timer tick, click or completion changes the panel *)
(* text.                                                                   *)
(***************************************************************************)
C35_NoStocksConfiguredStays ==
    [][(/\ settings_symbols = <<>>
        /\ applet.label = Text("No stocks configured")
        /\ CycleActivation \/ OnStockDataReceived) =>
        applet'.label = applet.label]_vars

(***************************************************************************)
(* C36: in every reachable state cycle_timeout_id is nonzero exactly when  *)
(* a cycle timer source is live, and that source is the one it names.      *)
(***************************************************************************)
CycleSources == {s \in sources : s.func = "invest_applet_cycle_stocks"}

C36_CycleIdNamesLiveSource ==
    /\ applet.cycle_timeout_id # 0 <=> CycleSources # {}
    /\ \A s \in CycleSources : s.id = applet.cycle_timeout_id

(***************************************************************************)
(* C37: at most one cycle timer and at most one periodic update timer are  *)
(* live in every reachable state.                                          *)
(***************************************************************************)
UpdateSources == {s \in sources : s.func = "invest_applet_update_stocks"}

C37_AtMostOneTimerOfEachKind ==
    /\ Cardinality(CycleSources) <= 1
    /\ Cardinality(UpdateSources) <= 1

\* Both timers run, each re-armed by the preferences dialog or a completion
\* after the first generation.
C37_Witness ==
    /\ Cardinality(CycleSources) = 1
    /\ Cardinality(UpdateSources) = 1
    /\ \E s \in UpdateSources : s.interval # DEFAULT_UPDATE_INTERVAL * 60
    /\ \E s \in CycleSources : s.id = applet.cycle_timeout_id
    /\ applet.refresh_interval = 30
    /\ applet.cycle_interval = 10

(***************************************************************************)
(* C38: whenever a step puts a price into the panel, the price and the     *)
(* symbol are those of a slot within total_symbols whose stock_valid is    *)
(* TRUE at that step.                                                      *)
(***************************************************************************)
C38_DisplayedSlotIsValid ==
    [][(applet'.label # applet.label /\ applet'.label.text = "%s: $%.2f") =>
        \E i \in ValidSlots(applet') :
            /\ i < applet'.total_symbols
            /\ Shows(applet', i)]_vars

\* The cycle has come round to the first of two valid symbols.
C38_Witness ==
    /\ applet.total_symbols = 2
    /\ ValidSlots(applet) = {0, 1}
    /\ applet.pending_requests = 0
    /\ applet.cycle_position = 0
    /\ Shows(applet, 0)
    /\ CycleTimerArmed

====
